---- MODULE Spec2Model ----
(***************************************************************************)
(* Model of the GitHub administration scripts of the repository:           *)
(*   - utils/github/org_repo_details/app.js  (the collaboration reporter)  *)
(*   - utils/github/org_user_list/app.js     (cross-org reconciliation,    *)
(*                                            mannequin filter)            *)
(*   - utils/github/issue_automation/index.js, copilot_onboarding.ts       *)
(*   - utils/github/Shai-Hulud-scanner/scan-org.js                         *)
(*   - utils/appstore-connect-api (App Store Connect access export)        *)
(* GitHub is a state variable holding the listings the REST API returns;   *)
(* every script is a sequential process whose position is pc.              *)
(***************************************************************************)
EXTENDS Integers, Sequences, FiniteSets, TLC

VARIABLES
    github,                     \* org name -> [members, teams, repos]: what the API lists
    input_file,                 \* parsed records of the input CSV (process.argv)
    argc,                       \* how many command-line arguments follow the script name
    pc,                         \* position of the running script
    requests,                   \* the API requests issued so far, in order
    in_flight,                  \* reporter: the requests whose response is awaited
    linked_member_map,          \* reporter: get_linked_members result
    member_map,                 \* reporter: get_organization_members result
    team_idx,                   \* reporter: position of `for (const team_slug of ...)`
    org_teams_map,              \* reporter: get_organization_teams result
    org_repositories,           \* reporter: get_org_repositories result
    repo_idx,                   \* reporter: position of `for (const repo of repositories)`
    collaborators_for_repo,     \* reporter: direct collaborators of the current repo
    repo_collaboration_details, \* reporter: the reports pushed so far
    run,                        \* reporter: 1 for the first run, 2 for the run after it
    first_output,               \* reporter: the files as the first run left them
    org_repo_collaborators,     \* org_user_list: logins find_collaborators returned
    members_removed_from_bcgov, \* org_user_list: get_bcgov_removed_members result
    first_org_members,          \* org_user_list: get_org_members(first_org)
    second_org_members,         \* org_user_list: get_org_members(second_org)
    users_to_invite,            \* org_user_list: the invite list
    users_to_remove,            \* org_user_list: the remove list
    template_name,              \* issue_automation: process.argv[2], "null" without one
    org_owners,                 \* issue_automation: getOrgOwners result
    lines_read,                 \* issue_automation: lines of FILE the reader has emitted
    tasks,                      \* issue_automation: one processRepo call per line read
    issues,                     \* issue_automation: repository -> open issues, newest first
    user_idx,                   \* copilot: position of `for (const githubId of githubIds)`
    copilot_seats,              \* copilot: logins given a Copilot seat
    cohort_team,                \* copilot: logins added to the cohort team
    invitations,                \* copilot: logins invited to the cohort organization
    mannequin_file,             \* mannequin filter: rows of MANNEQUIN_FILE
    mapping_file,               \* mannequin filter: rows of MAPPING_FILE
    mannequins,                 \* mannequin filter: the Map read from MANNEQUIN_FILE
    mapping,                    \* mannequin filter: the Map read from MAPPING_FILE
    compromised_file,           \* scanner: lines of known-compromised-packages.txt
    compromisedPackages,        \* scanner: loadCompromisedPackages result
    selectedRepos,              \* scanner: process.argv.slice(2)
    repos,                      \* scanner: the repository names scanOrg goes through
    scan_idx,                   \* scanner: position of `for (const repo of repos)`
    attempt,                    \* scanner: attempt of the running doRequestWithRetries
    responses,                  \* scanner: what that call was answered, per attempt
    slept,                      \* scanner: the sleeps of that call, in ms
    checked,                    \* scanner: the "Checking repository" lines logged
    results,                    \* scanner: the findings pushed so far
    fetched_users,              \* appstore: `users`, the users fetched
    user_index,                 \* appstore: position of `for (index, user) in users`
    retryNum,                   \* appstore: retryNum of the running getVisibleAppsForUser
    seconds_slept,              \* appstore: the Task.sleep calls of the run, in seconds
    appsAndUsers,               \* appstore: app name -> users who see the app
    printed,                    \* appstore: the "Could not fetch" lines run printed
    console_error,              \* what console.error has logged
    uncaught,                   \* the exception that left the top-level await, or NoError
    written,                    \* file name -> JSON value written by writeFile
    exit_code                   \* -1 while running, then the process exit code

vars == <<github, input_file, argc, pc, requests, in_flight, linked_member_map,
          member_map, team_idx, org_teams_map, org_repositories, repo_idx,
          collaborators_for_repo, repo_collaboration_details, run, first_output,
          org_repo_collaborators,
          members_removed_from_bcgov, first_org_members, second_org_members,
          users_to_invite, users_to_remove, template_name, org_owners, lines_read,
          tasks, issues, user_idx, copilot_seats, cohort_team, invitations,
          mannequin_file, mapping_file, mannequins, mapping,
          compromised_file, compromisedPackages, selectedRepos, repos, scan_idx,
          attempt, responses, slept, checked, results,
          fetched_users, user_index, retryNum, seconds_slept, appsAndUsers, printed,
          console_error, uncaught, written, exit_code>>

reporterVars == <<in_flight, linked_member_map, member_map, team_idx, org_teams_map,
                  org_repositories, repo_idx, collaborators_for_repo,
                  repo_collaboration_details>>

userListVars == <<org_repo_collaborators, members_removed_from_bcgov, first_org_members,
                  second_org_members, users_to_invite, users_to_remove>>

issueVars == <<template_name, org_owners, lines_read, tasks, issues>>

copilotVars == <<user_idx, copilot_seats, cohort_team, invitations>>

mannequinVars == <<mannequin_file, mapping_file, mannequins, mapping>>

scannerVars == <<compromised_file, compromisedPackages, selectedRepos, repos, scan_idx,
                 attempt, responses, slept, checked, results>>

appStoreVars == <<fetched_users, user_index, retryNum, seconds_slept, appsAndUsers, printed>>

\* what an action of the reporter, of org_user_list, of issue_automation, of
\* copilot_onboarding, of the mannequin filter, of the scanner, of the App Store
\* Connect export leaves alone
outsideReporter == <<userListVars, issueVars, copilotVars, mannequinVars, scannerVars,
                     appStoreVars, run, first_output>>
outsideUserList == <<reporterVars, issueVars, copilotVars, mannequinVars, scannerVars,
                     appStoreVars, run, first_output>>
outsideIssues == <<reporterVars, userListVars, copilotVars, mannequinVars, scannerVars,
                   appStoreVars, run, first_output>>
outsideCopilot == <<reporterVars, userListVars, issueVars, mannequinVars, scannerVars,
                    appStoreVars, run, first_output>>
outsideMannequin == <<reporterVars, userListVars, issueVars, copilotVars, scannerVars,
                      appStoreVars, run, first_output, github, input_file, argc,
                      requests, uncaught>>
outsideScanner == <<reporterVars, userListVars, issueVars, copilotVars, mannequinVars,
                    appStoreVars, run, first_output, input_file, argc, requests,
                    written>>
outsideAppStore == <<reporterVars, userListVars, issueVars, copilotVars, mannequinVars,
                     scannerVars, run, first_output, input_file, argc, console_error>>

----------------------------------------------------------------------------
(* Bounds of the explored inputs *)

MaxRepos == 2          \* repositories listed for an organization
MaxWorldSize == 4      \* repositories + grants + team memberships + CSV rows
MaxRemovedRows == 2    \* rows of the removed-members file
MaxLines == 2          \* lines of the FILE of issue_automation
MaxUsers == 2          \* ids of the input of copilot_onboarding

DefaultPerPage == 30   \* items of a REST page when the request sets no per_page

Logins == <<"alice", "bob">>          \* the reporter's organization, in listing order
UserLogins == <<"A", "B", "C">>       \* the two organizations of org_user_list
Slugs == <<"t1", "t2">>
Roles == {"admin", "push", "pull"}
TargetOrg == "bcgov"
FirstOrg == "BCDevOps"
IssueOrg == "bcgov-c"
CopilotOrg == "my-org"
CohortOrg == "cohort-org"
SecondOrg == "bcgov"

SeqsUpTo(S, n) == UNION {[1..k -> S] : k \in 0..n}

Injective(s) == \A i, j \in 1..Len(s) : i # j => s[i] # s[j]

Range(s) == {s[i] : i \in 1..Len(s)}

----------------------------------------------------------------------------
(* utils/github/org_repo_details/app.js: the pure part of every function.  *)
(* JavaScript arrays are 0-based: record[1] of the source is record[2].    *)

\* obj.hasOwnProperty(key) on a plain object used as a map
HasOwnProperty(map, key) == key \in DOMAIN map

\* faulty variant: the map keyed on record[0], the first column
get_linked_members_first_column(records) ==
    [k \in {records[i][1] : i \in 1..Len(records)} |->
        records[CHOOSE i \in 1..Len(records) : records[i][1] = k]]

\* linked_member_map[record[1]] = record, a later row overwriting an earlier one
get_linked_members(records) ==
    LET keys == {records[i][2] : i \in 1..Len(records)}
        last(k) == CHOOSE i \in 1..Len(records) :
                       /\ records[i][2] = k
                       /\ \A j \in (i + 1)..Len(records) : records[j][2] # k
    IN  [k \in keys |-> records[last(k)]]

\* member_map[member.login] = member
get_organization_members(org_data) ==
    [l \in Range(org_data.members) |-> [login |-> l]]

\* teams_to_members[team.slug] = team; teams_to_members[slug].members = members
get_organization_teams(org_data) ==
    LET slugs == {org_data.teams[i].slug : i \in 1..Len(org_data.teams)}
        team(s) == CHOOSE i \in 1..Len(org_data.teams) :
                       /\ org_data.teams[i].slug = s
                       /\ \A j \in (i + 1)..Len(org_data.teams) : org_data.teams[j].slug # s
    IN  [s \in slugs |-> [slug |-> s, members |-> org_data.teams[team(s)].members]]

get_org_repositories(org_data) == org_data.repos

\* every listed collaborator gets is_member and association_type = "direct"
get_collaborators_for_repo(repo, members) ==
    [i \in 1..Len(repo.direct) |->
        [login |-> repo.direct[i].login,
         role_name |-> repo.direct[i].role_name,
         is_member |-> HasOwnProperty(members, repo.direct[i].login),
         association_type |-> "direct"]]

\* one collaborator per member of a team, with the team's permission on the repo
team_collaborators(org_team, repo_team) ==
    [i \in 1..Len(org_team.members) |->
        [login |-> org_team.members[i],
         role_name |-> repo_team.permission,
         is_member |-> TRUE,
         association_type |-> "team_member"]]

\* organization_teams[repo_team.slug] is undefined for some team of the repo:
\* reading org_team.members then throws a TypeError
team_lookup_throws(repo, organization_teams) ==
    \E i \in 1..Len(repo.teams) :
        ~HasOwnProperty(organization_teams, repo.teams[i].slug)

RECURSIVE team_members_upto(_, _, _)
team_members_upto(repo, organization_teams, n) ==
    IF n = 0 THEN <<>>
    ELSE team_members_upto(repo, organization_teams, n - 1)
         \o team_collaborators(organization_teams[repo.teams[n].slug], repo.teams[n])

get_team_members_for_repo(repo, organization_teams) ==
    team_members_upto(repo, organization_teams, Len(repo.teams))

\* faulty variant: the team loop does not set has_admin
has_admin_direct_only(direct, team_members) ==
    \E i \in 1..Len(direct) : direct[i].role_name = "admin"

\* the loops over collaborators_for_repo and team_members_for_repo
has_admin(direct, team_members) ==
    \/ \E i \in 1..Len(direct) : direct[i].role_name = "admin"
    \/ \E i \in 1..Len(team_members) : team_members[i].role_name = "admin"

\* faulty variant: the membership test is dropped
has_member_admin_any_admin(direct, members) ==
    \E i \in 1..Len(direct) : direct[i].role_name = "admin"

has_member_admin(direct, members) ==
    \E i \in 1..Len(direct) :
        /\ direct[i].role_name = "admin"
        /\ HasOwnProperty(members, direct[i].login)

\* faulty variant: any team with access sets the flag
has_admin_team_any_role(team_members) ==
    Len(team_members) > 0

has_admin_team(team_members) ==
    \E i \in 1..Len(team_members) : team_members[i].role_name = "admin"

has_linked_collaborator(collaborators, linked) ==
    \E i \in 1..Len(collaborators) : HasOwnProperty(linked, collaborators[i].login)

\* faulty variant: team members already listed as direct collaborators are dropped
concat_collaborators_dedup(direct, team_members) ==
    LET fresh(c) == \A i \in 1..Len(direct) : direct[i].login # c.login
    IN  direct \o SelectSeq(team_members, fresh)

\* collaborators_for_repo.concat(team_members_for_repo)
concat_collaborators(direct, team_members) == direct \o team_members

repo_map(repo, direct, team_members, members, linked) ==
    [repo_name |-> repo.name,
     archived |-> repo.archived,
     has_admin |-> has_admin(direct, team_members),
     has_member_admin |-> has_member_admin(direct, members),
     has_admin_team |-> has_admin_team(team_members),
     has_linked_collaborator |->
         has_linked_collaborator(concat_collaborators(direct, team_members), linked),
     has_workflows |-> FALSE,
     has_webhooks |-> FALSE,
     collaborators |-> concat_collaborators(direct, team_members)]

----------------------------------------------------------------------------
(* The organizations and input files the scripts are run against *)

\* the sequences without repetition over the elements of `order`
DistinctLists(order) ==
    {s \in SeqsUpTo(Range(order), Len(order)) : Injective(s)}

\* the sub-listings of `order`: listMembers, teams.list in a fixed order
SubLists(order) ==
    {s \in DistinctLists(order) :
        \A i, j \in 1..Len(s) : i < j =>
            \E a, b \in 1..Len(order) : a < b /\ order[a] = s[i] /\ order[b] = s[j]}

DirectLists(logins, roles) ==
    {s \in SeqsUpTo([login : Range(logins), role_name : roles], Len(logins)) :
        Injective([i \in 1..Len(s) |-> s[i].login])}

RepoTeamLists(slugs, roles) ==
    {s \in SeqsUpTo([slug : Range(slugs), permission : roles], Len(slugs)) :
        Injective([i \in 1..Len(s) |-> s[i].slug])}

RepoName(i) == IF i = 1 THEN "r1" ELSE IF i = 2 THEN "r2" ELSE "r3"

RepoSize(r) == 1 + Len(r.direct) + Len(r.teams)

RepoConfigs(logins, slugs, roles, archived, size) ==
    {r \in [archived : archived, direct : DirectLists(logins, roles),
            teams : RepoTeamLists(slugs, roles)] : RepoSize(r) <= size}

\* the listings of at most n repositories whose sizes add up to at most size
RECURSIVE RepoLists(_, _, _, _, _, _, _)
RepoLists(logins, slugs, roles, archived, first, n, size) ==
    IF n = 0 \/ size <= 0 THEN {<<>>}
    ELSE {<<>>} \cup
         UNION {{<<[name |-> RepoName(first), archived |-> r.archived,
                    direct |-> r.direct, teams |-> r.teams]>> \o rest :
                   rest \in RepoLists(logins, slugs, roles, archived, first + 1, n - 1,
                                      size - RepoSize(r))} :
                r \in RepoConfigs(logins, slugs, roles, archived, size)}

RECURSIVE SumLen(_)
SumLen(ss) == IF Len(ss) = 0 THEN 0 ELSE Len(Head(ss)) + SumLen(Tail(ss))

TeamsSize(t) == SumLen([i \in 1..Len(t) |-> t[i].members])

\* the teams an organization lists, each with its member listing; team members
\* are members of the organization
OrgTeamLists(members, slugs, size) ==
    {s \in SeqsUpTo([slug : Range(slugs), members : DistinctLists(members)], Len(slugs)) :
        /\ [i \in 1..Len(s) |-> s[i].slug] \in SubLists(slugs)
        /\ TeamsSize(s) <= size}

\* the repository listings of the reporter's organizations, by total size
ReporterRepoLists ==
    [size \in 0..MaxWorldSize |->
        RepoLists(Logins, Slugs, Roles, {FALSE}, 1, MaxRepos, size)]

LinkedCsvRows == {<<"idir1", "alice">>, <<"alice", "bob">>}

----------------------------------------------------------------------------
(* The reporter, one action per await of org_repo_details/app.js: an       *)
(* action is what runs when the awaited read or listing settles, up to the *)
(* next await.  A paginated listing is one request: no listing of the      *)
(* explored organizations is longer than a page (per_page: 100).           *)

NoError == [name |-> "none", status |-> 0]

\* one call of the REST API: the octokit method and the org, team or repository
Request(api, target) == [api |-> api, target |-> target]

\* process.argv[n + 1] put in a URL: "undefined" when the argument was not given
Argument(n, value) == IF argc >= n THEN value ELSE "undefined"

\* process.argv[4] of the reporter
target_org == Argument(3, TargetOrg)

\* Object.keys(teams_to_members): the slugs in the order they were first listed
RECURSIVE team_slugs_upto(_, _)
team_slugs_upto(org_data, n) ==
    IF n = 0 THEN <<>>
    ELSE LET before == team_slugs_upto(org_data, n - 1)
         IN  IF org_data.teams[n].slug \in Range(before) THEN before
             ELSE Append(before, org_data.teams[n].slug)

team_slugs(org_data) == team_slugs_upto(org_data, Len(org_data.teams))

\* the response to `answered` has arrived and the requests `issued` are sent
Await(answered, issued) ==
    /\ requests' = requests \o issued
    /\ in_flight' = (in_flight \ answered) \cup Range(issued)

\* an exception nothing catches rejects the top-level await: node prints it and exits 1
Throw(err) ==
    /\ uncaught' = err
    /\ exit_code' = 1
    /\ pc' = "exited"

\* the state of a script before its first statement
ReporterIdle ==
    /\ in_flight = {}
    /\ linked_member_map = <<>>
    /\ member_map = <<>>
    /\ team_idx = 0
    /\ org_teams_map = <<>>
    /\ org_repositories = <<>>
    /\ repo_idx = 0
    /\ collaborators_for_repo = <<>>
    /\ repo_collaboration_details = <<>>
    /\ run = 1
    /\ first_output = <<>>

UserListIdle ==
    /\ org_repo_collaborators = {}
    /\ members_removed_from_bcgov = <<>>
    /\ first_org_members = <<>>
    /\ second_org_members = <<>>
    /\ users_to_invite = <<>>
    /\ users_to_remove = <<>>

IssueIdle ==
    /\ template_name = "null"
    /\ org_owners = <<>>
    /\ lines_read = 0
    /\ tasks = <<>>
    /\ issues = <<>>

CopilotIdle ==
    /\ user_idx = 0
    /\ copilot_seats = {}
    /\ cohort_team = {}
    /\ invitations = {}

MannequinIdle ==
    /\ mannequin_file = <<>>
    /\ mapping_file = <<>>
    /\ mannequins = <<>>
    /\ mapping = <<>>

ScannerIdle ==
    /\ compromised_file = <<>>
    /\ compromisedPackages = <<>>
    /\ selectedRepos = <<>>
    /\ repos = <<>>
    /\ scan_idx = 0
    /\ attempt = 0
    /\ responses = <<>>
    /\ slept = <<>>
    /\ checked = <<>>
    /\ results = <<>>

AppStoreIdle ==
    /\ fetched_users = <<>>
    /\ user_index = 0
    /\ retryNum = 0
    /\ seconds_slept = <<>>
    /\ appsAndUsers = <<>>
    /\ printed = <<>>

ProcessStarted ==
    /\ requests = <<>>
    /\ console_error = <<>>
    /\ uncaught = NoError
    /\ written = <<>>
    /\ exit_code = -1

\* every organization of at most `size` listed items and every linked-members file
\* of at most one row; the reporter copies repo.archived through, so FALSE only
ReporterInputs(size) ==
    /\ input_file \in SeqsUpTo(LinkedCsvRows, 1)
    /\ \E m \in SubLists(Logins) :
       \E t \in OrgTeamLists(m, Slugs, size - Len(input_file)) :
       \E r \in ReporterRepoLists[size - Len(input_file) - TeamsSize(t)] :
           github = [o \in {TargetOrg} |-> [members |-> m, teams |-> t, repos |-> r]]
    /\ pc = "get_linked_members"
    /\ ReporterIdle
    /\ UserListIdle
    /\ IssueIdle
    /\ CopilotIdle
    /\ MannequinIdle
    /\ ScannerIdle
    /\ AppStoreIdle
    /\ ProcessStarted

\* node app.js <linked members file> <output file> <organization>
InitReporter ==
    /\ ReporterInputs(MaxWorldSize)
    /\ argc = 3

\* the trailing arguments may be missing
InitReporterArguments ==
    /\ ReporterInputs(MaxWorldSize - 1)
    /\ argc \in 0..3

\* readFile and parse succeeded; get_organization_members sends the first request
GetLinkedMembers ==
    /\ pc = "get_linked_members"
    /\ argc >= 1
    /\ linked_member_map' = get_linked_members(input_file)
    /\ Await({}, <<Request("orgs.listMembers", target_org)>>)
    /\ pc' = "get_organization_members"
    /\ UNCHANGED <<outsideReporter, github, input_file, argc, member_map, team_idx,
                   org_teams_map, org_repositories, repo_idx, collaborators_for_repo,
                   repo_collaboration_details, console_error, uncaught, written,
                   exit_code>>

\* faulty variant: the members are requested before the linked-members file is read
GetLinkedMembersFailsLate ==
    /\ pc = "get_linked_members"
    /\ \E name \in {"ENOENT", "CsvError"} :
          /\ argc = 0 => name = "ENOENT"
          /\ Throw([name |-> name, status |-> 0])
    /\ requests' = Append(requests, Request("orgs.listMembers", target_org))
    /\ UNCHANGED <<outsideReporter, reporterVars, github, input_file, argc,
                   console_error, written>>

\* readFile rejects (no such file, also `${cwd}/undefined` of a missing argument) or
\* parse throws on malformed CSV; nothing catches it
GetLinkedMembersFails ==
    /\ pc = "get_linked_members"
    /\ \E name \in {"ENOENT", "CsvError"} :
          /\ argc = 0 => name = "ENOENT"
          /\ Throw([name |-> name, status |-> 0])
    /\ UNCHANGED <<outsideReporter, reporterVars, github, input_file, argc, requests,
                   console_error, written>>

GetOrganizationMembers ==
    /\ pc = "get_organization_members"
    /\ argc >= 3
    /\ member_map' = get_organization_members(github[TargetOrg])
    /\ Await({Request("orgs.listMembers", target_org)},
             <<Request("teams.list", target_org)>>)
    /\ pc' = "get_organization_teams"
    /\ UNCHANGED <<outsideReporter, github, input_file, argc, linked_member_map, team_idx,
                   org_teams_map, org_repositories, repo_idx, collaborators_for_repo,
                   repo_collaboration_details, console_error, uncaught, written,
                   exit_code>>

\* the team listing has arrived: the member listing of the first team is requested,
\* or with no team get_organization_teams returns and the repositories are listed
GetOrganizationTeams ==
    /\ pc = "get_organization_teams"
    /\ LET slugs == team_slugs(github[TargetOrg])
       IN  IF Len(slugs) = 0
           THEN /\ org_teams_map' = get_organization_teams(github[TargetOrg])
                /\ Await({Request("teams.list", target_org)},
                         <<Request("repos.listForOrg", target_org)>>)
                /\ pc' = "get_org_repositories"
                /\ UNCHANGED team_idx
           ELSE /\ team_idx' = 1
                /\ Await({Request("teams.list", target_org)},
                         <<Request("teams.listMembersInOrg", slugs[1])>>)
                /\ pc' = "get_team_members"
                /\ UNCHANGED org_teams_map
    /\ UNCHANGED <<outsideReporter, github, input_file, argc, linked_member_map,
                   member_map, org_repositories, repo_idx, collaborators_for_repo,
                   repo_collaboration_details, console_error, uncaught, written,
                   exit_code>>

\* the member listing of one team has arrived: on to the next team, and after the
\* last one get_organization_teams returns and the repositories are listed
GetTeamMembers ==
    /\ pc = "get_team_members"
    /\ LET slugs == team_slugs(github[TargetOrg])
       IN  IF team_idx < Len(slugs)
           THEN /\ team_idx' = team_idx + 1
                /\ Await({Request("teams.listMembersInOrg", slugs[team_idx])},
                         <<Request("teams.listMembersInOrg", slugs[team_idx + 1])>>)
                /\ UNCHANGED <<pc, org_teams_map>>
           ELSE /\ org_teams_map' = get_organization_teams(github[TargetOrg])
                /\ Await({Request("teams.listMembersInOrg", slugs[team_idx])},
                         <<Request("repos.listForOrg", target_org)>>)
                /\ pc' = "get_org_repositories"
                /\ UNCHANGED team_idx
    /\ UNCHANGED <<outsideReporter, github, input_file, argc, linked_member_map,
                   member_map, org_repositories, repo_idx, collaborators_for_repo,
                   repo_collaboration_details, console_error, uncaught, written,
                   exit_code>>

\* a listing of the organization is rejected with an HttpError, a 404 when the
\* organization argument is missing and else a 403; nothing catches it
GetOrganizationListingFails ==
    /\ pc \in {"get_organization_members", "get_organization_teams",
               "get_team_members", "get_org_repositories"}
    /\ Throw([name |-> "HttpError", status |-> IF argc < 3 THEN 404 ELSE 403])
    /\ in_flight' = {}
    /\ UNCHANGED <<outsideReporter, github, input_file, argc, requests,
                   linked_member_map, member_map, team_idx, org_teams_map,
                   org_repositories, repo_idx, collaborators_for_repo,
                   repo_collaboration_details, console_error, written>>

\* faulty variant: the collaborators of every repository are requested at once
GetOrgRepositoriesFanOut ==
    /\ pc = "get_org_repositories"
    /\ org_repositories' = get_org_repositories(github[TargetOrg])
    /\ repo_idx' = 1
    /\ Await({Request("repos.listForOrg", target_org)},
             [i \in 1..Len(org_repositories') |->
                 Request("repos.listCollaborators", org_repositories'[i].name)])
    /\ pc' = IF Len(org_repositories') = 0 THEN "write_file"
             ELSE "get_collaborators_for_repo"
    /\ UNCHANGED <<outsideReporter, github, input_file, argc, linked_member_map,
                   member_map, team_idx, org_teams_map, collaborators_for_repo,
                   repo_collaboration_details, console_error, uncaught, written,
                   exit_code>>

\* the for loop of assemble_repo_collaboration_details starts right after the listing
GetOrgRepositories ==
    /\ pc = "get_org_repositories"
    /\ org_repositories' = get_org_repositories(github[TargetOrg])
    /\ repo_idx' = 1
    /\ IF Len(org_repositories') = 0
       THEN /\ Await({Request("repos.listForOrg", target_org)}, <<>>)
            /\ pc' = "write_file"
       ELSE /\ Await({Request("repos.listForOrg", target_org)},
                     <<Request("repos.listCollaborators", org_repositories'[1].name)>>)
            /\ pc' = "get_collaborators_for_repo"
    /\ UNCHANGED <<outsideReporter, github, input_file, argc, linked_member_map,
                   member_map, team_idx, org_teams_map, collaborators_for_repo,
                   repo_collaboration_details, console_error, uncaught, written,
                   exit_code>>

GetCollaboratorsForRepo ==
    /\ pc = "get_collaborators_for_repo"
    /\ collaborators_for_repo' =
           get_collaborators_for_repo(org_repositories[repo_idx], member_map)
    /\ Await({Request("repos.listCollaborators", org_repositories[repo_idx].name)},
             <<Request("repos.listTeams", org_repositories[repo_idx].name)>>)
    /\ pc' = "get_team_members_for_repo"
    /\ UNCHANGED <<outsideReporter, github, input_file, argc, linked_member_map,
                   member_map, team_idx, org_teams_map, org_repositories, repo_idx,
                   repo_collaboration_details, console_error, uncaught, written,
                   exit_code>>

\* faulty variant: the failure is caught and logged, the loop goes on with the next repo
GetCollaboratorsForRepoSkips ==
    /\ pc = "get_collaborators_for_repo"
    /\ console_error' = Append(console_error, "listCollaborators")
    /\ repo_idx' = repo_idx + 1
    /\ IF repo_idx' > Len(org_repositories)
       THEN /\ Await({Request("repos.listCollaborators",
                              org_repositories[repo_idx].name)}, <<>>)
            /\ pc' = "write_file"
       ELSE /\ Await({Request("repos.listCollaborators",
                              org_repositories[repo_idx].name)},
                     <<Request("repos.listCollaborators",
                               org_repositories[repo_idx'].name)>>)
            /\ pc' = "get_collaborators_for_repo"
    /\ UNCHANGED <<outsideReporter, github, input_file, argc, linked_member_map,
                   member_map, team_idx, org_teams_map, org_repositories,
                   collaborators_for_repo, repo_collaboration_details, uncaught,
                   written, exit_code>>

\* octokit rejects with an HttpError (403, 404); nothing catches it
GetCollaboratorsForRepoFails ==
    /\ pc = "get_collaborators_for_repo"
    /\ \E status \in {403, 404} : Throw([name |-> "HttpError", status |-> status])
    /\ in_flight' = {}
    /\ UNCHANGED <<outsideReporter, github, input_file, argc, requests,
                   linked_member_map, member_map, team_idx, org_teams_map,
                   org_repositories, repo_idx, collaborators_for_repo,
                   repo_collaboration_details, console_error, written>>

\* faulty variant: has_admin is declared outside the loop and never reset
GetTeamMembersForRepoStickyFlag ==
    /\ pc = "get_team_members_for_repo"
    /\ ~team_lookup_throws(org_repositories[repo_idx], org_teams_map)
    /\ LET repo == org_repositories[repo_idx]
           team_members_for_repo == get_team_members_for_repo(repo, org_teams_map)
           own == repo_map(repo, collaborators_for_repo, team_members_for_repo,
                           member_map, linked_member_map)
           before == \E r \in 1..Len(repo_collaboration_details) :
                         repo_collaboration_details[r].has_admin
       IN  repo_collaboration_details' =
               Append(repo_collaboration_details,
                      [own EXCEPT !.has_admin = own.has_admin \/ before])
    /\ collaborators_for_repo' = <<>>
    /\ repo_idx' = repo_idx + 1
    /\ IF repo_idx' > Len(org_repositories)
       THEN /\ Await({Request("repos.listTeams", org_repositories[repo_idx].name)}, <<>>)
            /\ pc' = "write_file"
       ELSE /\ Await({Request("repos.listTeams", org_repositories[repo_idx].name)},
                     <<Request("repos.listCollaborators",
                               org_repositories[repo_idx'].name)>>)
            /\ pc' = "get_collaborators_for_repo"
    /\ UNCHANGED <<outsideReporter, github, input_file, argc, linked_member_map,
                   member_map, team_idx, org_teams_map, org_repositories,
                   console_error, uncaught, written, exit_code>>

\* faulty variant: the commented-out guard `if (collaborators_for_repo.length > 0)`
\* around the push is in force, a repository without collaborators gets no report
GetTeamMembersForRepoSkipsEmpty ==
    /\ pc = "get_team_members_for_repo"
    /\ ~team_lookup_throws(org_repositories[repo_idx], org_teams_map)
    /\ LET repo == org_repositories[repo_idx]
           team_members_for_repo == get_team_members_for_repo(repo, org_teams_map)
           own == repo_map(repo, collaborators_for_repo, team_members_for_repo,
                           member_map, linked_member_map)
       IN  repo_collaboration_details' =
               IF Len(own.collaborators) > 0
               THEN Append(repo_collaboration_details, own)
               ELSE repo_collaboration_details
    /\ collaborators_for_repo' = <<>>
    /\ repo_idx' = repo_idx + 1
    /\ IF repo_idx' > Len(org_repositories)
       THEN /\ Await({Request("repos.listTeams", org_repositories[repo_idx].name)}, <<>>)
            /\ pc' = "write_file"
       ELSE /\ Await({Request("repos.listTeams", org_repositories[repo_idx].name)},
                     <<Request("repos.listCollaborators",
                               org_repositories[repo_idx'].name)>>)
            /\ pc' = "get_collaborators_for_repo"
    /\ UNCHANGED <<outsideReporter, github, input_file, argc, linked_member_map,
                   member_map, team_idx, org_teams_map, org_repositories,
                   console_error, uncaught, written, exit_code>>

\* the rest of the loop body is synchronous: flags, concat, push; then the next
\* repository's collaborators are requested, or after the last one the file is written
GetTeamMembersForRepo ==
    /\ pc = "get_team_members_for_repo"
    /\ ~team_lookup_throws(org_repositories[repo_idx], org_teams_map)
    /\ LET repo == org_repositories[repo_idx]
           team_members_for_repo == get_team_members_for_repo(repo, org_teams_map)
       IN  repo_collaboration_details' =
               Append(repo_collaboration_details,
                      repo_map(repo, collaborators_for_repo, team_members_for_repo,
                               member_map, linked_member_map))
    /\ collaborators_for_repo' = <<>>
    /\ repo_idx' = repo_idx + 1
    /\ IF repo_idx' > Len(org_repositories)
       THEN /\ Await({Request("repos.listTeams", org_repositories[repo_idx].name)}, <<>>)
            /\ pc' = "write_file"
       ELSE /\ Await({Request("repos.listTeams", org_repositories[repo_idx].name)},
                     <<Request("repos.listCollaborators",
                               org_repositories[repo_idx'].name)>>)
            /\ pc' = "get_collaborators_for_repo"
    /\ UNCHANGED <<outsideReporter, github, input_file, argc, linked_member_map,
                   member_map, team_idx, org_teams_map, org_repositories,
                   console_error, uncaught, written, exit_code>>

GetTeamMembersForRepoFails ==
    /\ pc = "get_team_members_for_repo"
    /\ \/ \E status \in {403, 404} : Throw([name |-> "HttpError", status |-> status])
       \/ /\ team_lookup_throws(org_repositories[repo_idx], org_teams_map)
          /\ Throw([name |-> "TypeError", status |-> 0])
    /\ in_flight' = {}
    /\ UNCHANGED <<outsideReporter, github, input_file, argc, requests,
                   linked_member_map, member_map, team_idx, org_teams_map,
                   org_repositories, repo_idx, collaborators_for_repo,
                   repo_collaboration_details, console_error, written>>

\* faulty variant: the catch block ends the process with process.exit(1)
WriteFileFatal ==
    /\ pc = "write_file"
    /\ \E ok \in BOOLEAN :
          /\ argc < 2 => ~ok
          /\ IF ok
             THEN /\ written' = [f \in {"fileName"} |-> repo_collaboration_details]
                  /\ console_error' = console_error
                  /\ exit_code' = 0
             ELSE /\ written' = written
                  /\ console_error' = Append(console_error, "writeFile")
                  /\ exit_code' = 1
    /\ pc' = "exited"
    /\ UNCHANGED <<outsideReporter, reporterVars, github, input_file, argc, requests,
                   uncaught>>

\* faulty variant: the report is appended to the file (appendFile)
WriteFileAppends ==
    /\ pc = "write_file"
    /\ \E ok \in BOOLEAN :
          /\ argc < 2 => ~ok
          /\ IF ok
             THEN /\ written' = [f \in {"fileName"} |->
                                    (IF f \in DOMAIN written THEN written[f] ELSE <<>>)
                                    \o repo_collaboration_details]
                  /\ console_error' = console_error
             ELSE /\ written' = written
                  /\ console_error' = Append(console_error, "writeFile")
    /\ exit_code' = 0
    /\ pc' = "exited"
    /\ UNCHANGED <<outsideReporter, reporterVars, github, input_file, argc, requests,
                   uncaught>>

\* try { await writeFile(fileName, JSON.stringify(details)) } catch (err) { console.error(err) }
\* writeFile(undefined, ...) of a missing argument throws into the same catch
WriteFile ==
    /\ pc = "write_file"
    /\ \E ok \in BOOLEAN :
          /\ argc < 2 => ~ok
          /\ IF ok
             THEN /\ written' = [f \in {"fileName"} |-> repo_collaboration_details]
                  /\ console_error' = console_error
             ELSE /\ written' = written
                  /\ console_error' = Append(console_error, "writeFile")
    /\ exit_code' = 0
    /\ pc' = "exited"
    /\ UNCHANGED <<outsideReporter, reporterVars, github, input_file, argc, requests,
                   uncaught>>

NextReporter ==
    \/ GetLinkedMembers
    \/ GetLinkedMembersFails
    \/ GetOrganizationMembers
    \/ GetOrganizationTeams
    \/ GetTeamMembers
    \/ GetOrganizationListingFails
    \/ GetOrgRepositories
    \/ GetCollaboratorsForRepo
    \/ GetCollaboratorsForRepoFails
    \/ GetTeamMembersForRepo
    \/ GetTeamMembersForRepoFails
    \/ WriteFile

Spec == InitReporter /\ [][NextReporter]_vars

\* node app.js is started again with the same arguments once the first run has
\* ended: a new process, the organization, the input CSV and the files as they are
RunAgain ==
    /\ pc = "exited"
    /\ run = 1
    /\ run' = 2
    /\ first_output' = written
    /\ pc' = "get_linked_members"
    /\ in_flight' = {}
    /\ linked_member_map' = <<>>
    /\ member_map' = <<>>
    /\ team_idx' = 0
    /\ org_teams_map' = <<>>
    /\ org_repositories' = <<>>
    /\ repo_idx' = 0
    /\ collaborators_for_repo' = <<>>
    /\ repo_collaboration_details' = <<>>
    /\ requests' = <<>>
    /\ console_error' = <<>>
    /\ uncaught' = NoError
    /\ exit_code' = -1
    /\ UNCHANGED <<userListVars, issueVars, copilotVars, mannequinVars, scannerVars,
                   appStoreVars, github, input_file, argc, written>>

\* the smaller organizations, for two runs in a row
InitReporterTwice ==
    /\ ReporterInputs(MaxWorldSize - 1)
    /\ argc = 3

SpecTwice == InitReporterTwice /\ [][NextReporter \/ RunAgain]_vars

----------------------------------------------------------------------------
(* Properties of the reports of org_repo_details/app.js, stated against    *)
(* what the API lists for the organization (github) and the input CSV.     *)

Listed == github[TargetOrg]

\* the member listing of the team `slug` of the organization
ListedTeamMembers(slug) ==
    LET i == CHOOSE i \in 1..Len(Listed.teams) : Listed.teams[i].slug = slug
    IN  Listed.teams[i].members

\* how many team-derived collaborators precede those of the n-th team of a repository
RECURSIVE TeamOffset(_, _)
TeamOffset(repo, n) ==
    IF n <= 1 THEN 0
    ELSE TeamOffset(repo, n - 1) + Len(ListedTeamMembers(repo.teams[n - 1].slug))

Occurrences(collaborators, login) ==
    Cardinality({j \in 1..Len(collaborators) : collaborators[j].login = login})

Reports == 1..Len(repo_collaboration_details)

\* C1: the collaborators of every report are the direct collaborators in listing
\* order followed by the members of every team of the repository, team by team in
\* listing order, nothing dropped: N + M entries, and a login granted access directly
\* and through k teams appears 1 + k times.
C1_DirectThenTeamNoDedup ==
    \A r \in Reports :
        LET repo == Listed.repos[r]
            cs == repo_collaboration_details[r].collaborators
            N == Len(repo.direct)
            M == TeamOffset(repo, Len(repo.teams) + 1)
        IN  /\ Len(cs) = N + M
            /\ \A j \in 1..N :
                   /\ cs[j].login = repo.direct[j].login
                   /\ cs[j].role_name = repo.direct[j].role_name
                   /\ cs[j].association_type = "direct"
            /\ \A t \in 1..Len(repo.teams) :
               \A m \in 1..Len(ListedTeamMembers(repo.teams[t].slug)) :
                   LET c == cs[N + TeamOffset(repo, t) + m]
                   IN  /\ c.login = ListedTeamMembers(repo.teams[t].slug)[m]
                       /\ c.role_name = repo.teams[t].permission
                       /\ c.association_type = "team_member"
            /\ \A l \in Range(Logins) :
                   Occurrences(cs, l) =
                       Cardinality({j \in 1..N : repo.direct[j].login = l})
                       + Cardinality({t \in 1..Len(repo.teams) :
                             l \in Range(ListedTeamMembers(repo.teams[t].slug))})

\* a report whose repository grants a login access directly and through a team
C1_Witness ==
    \E r \in Reports : \E l \in Range(Logins) :
        /\ Occurrences(repo_collaboration_details[r].collaborators, l) = 2
        /\ \E j \in 1..Len(Listed.repos[r].direct) : Listed.repos[r].direct[j].login = l

\* C2: has_admin is true exactly when some collaborator of the final list, direct or
\* team-derived, has role_name "admin"; it is false when all roles are push or pull.
C2_HasAdminIffSomeAdmin ==
    \A r \in Reports :
        LET rep == repo_collaboration_details[r]
        IN  /\ rep.has_admin <=>
                   \E j \in 1..Len(rep.collaborators) :
                       rep.collaborators[j].role_name = "admin"
            /\ (\A j \in 1..Len(rep.collaborators) :
                   rep.collaborators[j].role_name \in {"push", "pull"})
               => ~rep.has_admin

\* a report whose only admin is team-derived
C2_Witness ==
    \E r \in Reports :
        LET rep == repo_collaboration_details[r]
        IN  /\ rep.has_admin
            /\ \E j \in 1..Len(rep.collaborators) :
                   /\ rep.collaborators[j].role_name = "admin"
                   /\ rep.collaborators[j].association_type = "team_member"
            /\ \A j \in 1..Len(rep.collaborators) :
                   rep.collaborators[j].association_type = "direct"
                   => rep.collaborators[j].role_name # "admin"

\* C3: has_member_admin is true only when some collaborator with role_name "admin" is
\* a direct one whose login the organization lists as a member; a repository whose
\* admins are all team-derived has has_member_admin = FALSE.
C3_MemberAdminOnlyDirectMember ==
    \A r \in Reports :
        LET rep == repo_collaboration_details[r]
            cs == rep.collaborators
        IN  /\ rep.has_member_admin =>
                   \E j \in 1..Len(cs) :
                       /\ cs[j].role_name = "admin"
                       /\ cs[j].association_type = "direct"
                       /\ cs[j].login \in Range(Listed.members)
            /\ (\A j \in 1..Len(cs) :
                   cs[j].role_name = "admin" => cs[j].association_type = "team_member")
               => ~rep.has_member_admin

\* a report with a direct admin who is a member, so that has_member_admin is set
C3_Witness ==
    \E r \in Reports : repo_collaboration_details[r].has_member_admin

\* C4: has_admin_team is true exactly when the list holds a team-derived collaborator
\* with the admin role, that is when a team with permission "admin" on the repository
\* has a member; direct admins do not set it and an empty admin team leaves it false.
C4_AdminTeamIffTeamAdmin ==
    \A r \in Reports :
        LET rep == repo_collaboration_details[r]
            cs == rep.collaborators
            repo == Listed.repos[r]
        IN  /\ rep.has_admin_team <=>
                   \E j \in 1..Len(cs) :
                       /\ cs[j].association_type = "team_member"
                       /\ cs[j].role_name = "admin"
            /\ rep.has_admin_team <=>
                   \E t \in 1..Len(repo.teams) :
                       /\ repo.teams[t].permission = "admin"
                       /\ Len(ListedTeamMembers(repo.teams[t].slug)) > 0

\* a report with an admin team that has a member
C4_Witness ==
    \E r \in Reports : repo_collaboration_details[r].has_admin_team

\* C5: has_linked_collaborator is true exactly when the login of some collaborator of
\* the concatenated list is a key of the linked-members map, whose keys are the second
\* column of the rows of the input CSV.
C5_LinkedIffLoginInCsv ==
    \A r \in Reports :
        LET rep == repo_collaboration_details[r]
        IN  rep.has_linked_collaborator <=>
                \E j \in 1..Len(rep.collaborators) :
                \E row \in 1..Len(input_file) :
                    rep.collaborators[j].login = input_file[row][2]

\* a report whose linked collaborator is team-derived
C5_Witness ==
    \E r \in Reports :
        LET rep == repo_collaboration_details[r]
        IN  /\ rep.has_linked_collaborator
            /\ \A j \in 1..Len(rep.collaborators) :
                   rep.collaborators[j].association_type = "team_member"

\* the run ended by an exception thrown while the data of a repository was fetched
FetchAborted ==
    /\ pc = "exited"
    /\ uncaught.name \in {"HttpError", "TypeError"}
    /\ repo_idx >= 1

HasReport(name) ==
    \E r \in Reports : repo_collaboration_details[r].repo_name = name

\* C9 as stated: a failure while fetching the data of one repository (403/404 on its
\* collaborator or team listing, or a team slug missing from the org team map) is
\* logged for that repository and every remaining repository still gets a report.
C9_FetchFailureDoesNotAbort ==
    FetchAborted =>
        /\ Len(console_error) > 0
        /\ \A i \in 1..Len(org_repositories) :
               i # repo_idx => HasReport(org_repositories[i].name)

\* C9 amended: a failure while fetching the data of one repository is not caught: the
\* run ends there with the uncaught exception and exit code 1, nothing is logged by
\* console.error, no report is made for that repository or any later one and no
\* output file is written; a run that ends without exception reports every repository.
C9_FetchFailureAborts ==
    pc = "exited" =>
        \/ /\ uncaught = NoError
           /\ Len(repo_collaboration_details) = Len(org_repositories)
           /\ \A i \in 1..Len(org_repositories) : HasReport(org_repositories[i].name)
        \/ /\ uncaught # NoError
           /\ exit_code = 1
           /\ console_error = <<>>
           /\ written = <<>>
           /\ repo_idx = 0 => repo_collaboration_details = <<>>
           /\ FetchAborted =>
                  /\ Len(repo_collaboration_details) = repo_idx - 1
                  /\ \A i \in repo_idx..Len(org_repositories) :
                         ~HasReport(org_repositories[i].name)

\* the listing of the first of two repositories failed: the second is never reported
C9_Witness ==
    /\ FetchAborted
    /\ repo_idx = 1
    /\ Len(org_repositories) = 2

\* every request of a complete run of the reporter, in the order of the source:
\* members, teams, the members of every team, repositories, then for every
\* repository its direct collaborators and its teams
ReporterRequests ==
    <<Request("orgs.listMembers", TargetOrg), Request("teams.list", TargetOrg)>>
    \o [i \in 1..Len(Listed.teams) |->
           Request("teams.listMembersInOrg", Listed.teams[i].slug)]
    \o <<Request("repos.listForOrg", TargetOrg)>>
    \o [i \in 1..(2 * Len(Listed.repos)) |->
           IF i % 2 = 1
           THEN Request("repos.listCollaborators", Listed.repos[(i + 1) \div 2].name)
           ELSE Request("repos.listTeams", Listed.repos[i \div 2].name)]

\* the position of request q in the order of the requests issued so far, or 0
IssuedAt(q) ==
    IF \E i \in 1..Len(requests) : requests[i] = q
    THEN CHOOSE i \in 1..Len(requests) : requests[i] = q
    ELSE 0

\* C18: the reporter has at most one API request in flight at any time; members,
\* teams with every team's members and the repository listing are fetched, in that
\* order, before the first repository is processed; and the fetches of repository
\* i (direct collaborators, then repository teams) are answered before any fetch of
\* repository i + 1 is issued.
C18_OneRequestAtATimeInOrder ==
    /\ Cardinality(in_flight) <= 1
    /\ \A q \in in_flight : Len(requests) > 0 /\ q = requests[Len(requests)]
    /\ Len(requests) <= Len(ReporterRequests)
    /\ requests = SubSeq(ReporterRequests, 1, Len(requests))
    /\ repo_idx >= 1 =>
           /\ member_map = get_organization_members(Listed)
           /\ org_teams_map = get_organization_teams(Listed)
           /\ org_repositories = Listed.repos
           /\ Len(requests) >= 3 + Len(Listed.teams)
    /\ \A i \in 1..Len(Listed.repos) :
           LET collaborators == Request("repos.listCollaborators", Listed.repos[i].name)
               teams == Request("repos.listTeams", Listed.repos[i].name)
           IN  /\ IssuedAt(teams) > 0 =>
                      /\ IssuedAt(collaborators) = IssuedAt(teams) - 1
                      /\ collaborators \notin in_flight
               /\ (i > 1 /\ IssuedAt(collaborators) > 0) =>
                      /\ IssuedAt(Request("repos.listTeams", Listed.repos[i - 1].name))
                             = IssuedAt(collaborators) - 1
                      /\ Request("repos.listTeams", Listed.repos[i - 1].name)
                             \notin in_flight
                      /\ Len(repo_collaboration_details) >= i - 1

\* the collaborators of the second repository are awaited, the first one is reported,
\* and the organization has a team whose members were listed before
C18_Witness ==
    /\ pc = "get_collaborators_for_repo"
    /\ repo_idx = 2
    /\ in_flight = {Request("repos.listCollaborators", Listed.repos[2].name)}
    /\ Len(repo_collaboration_details) = 1
    /\ Len(Listed.teams) > 0

\* the report of the r-th listed repository, from its own listing entry and the
\* maps of the organization; no other repository enters
OwnReport(r) ==
    LET repo == Listed.repos[r]
        members == get_organization_members(Listed)
    IN  repo_map(repo, get_collaborators_for_repo(repo, members),
                 get_team_members_for_repo(repo, get_organization_teams(Listed)),
                 members, get_linked_members(input_file))

\* the flags of a report, from its own collaborator list and the two maps
FlagsFromOwnList(rep) ==
    LET cs == rep.collaborators
        admin(c) == c.role_name = "admin"
    IN  /\ rep.has_admin = \E j \in 1..Len(cs) : admin(cs[j])
        /\ rep.has_admin_team =
               \E j \in 1..Len(cs) :
                   admin(cs[j]) /\ cs[j].association_type = "team_member"
        /\ rep.has_member_admin =
               \E j \in 1..Len(cs) :
                   /\ admin(cs[j])
                   /\ cs[j].association_type = "direct"
                   /\ cs[j].login \in Range(Listed.members)
        /\ rep.has_linked_collaborator =
               \E j \in 1..Len(cs) : cs[j].login \in DOMAIN get_linked_members(input_file)

\* C19: the report of a repository depends on nothing but its own listing entry and
\* the maps of the organization: whatever other repositories are listed before or
\* after it, it is the same report, and its flags follow from its own collaborator
\* list and the member map; every report is appended once, in listing order, and no
\* earlier report is modified.
C19_ReportsAreIndependent ==
    /\ [](\A r \in Reports :
             /\ repo_collaboration_details[r] = OwnReport(r)
             /\ FlagsFromOwnList(repo_collaboration_details[r]))
    /\ [][/\ Len(repo_collaboration_details') \in
                  {Len(repo_collaboration_details), Len(repo_collaboration_details) + 1}
           /\ \A r \in Reports :
                  repo_collaboration_details'[r] = repo_collaboration_details[r]
           /\ Len(repo_collaboration_details') > Len(repo_collaboration_details) =>
                  repo_collaboration_details'[Len(repo_collaboration_details')].repo_name
                      = Listed.repos[Len(repo_collaboration_details')].name]_vars

\* two repositories are reported, the first with an admin and the second without
C19_Witness ==
    /\ Len(repo_collaboration_details) = 2
    /\ repo_collaboration_details[1].has_admin
    /\ ~repo_collaboration_details[2].has_admin
    /\ Len(repo_collaboration_details[2].collaborators) > 0

\* C20: a second run of the reporter against the unchanged organization and the
\* same linked-members file writes the JSON value the first run wrote (the value,
\* that is the text up to the order of the keys).
C20_SecondRunWritesTheSameReport ==
    (run = 2 /\ pc = "exited" /\ uncaught = NoError /\ console_error = <<>>) =>
        /\ DOMAIN written = {"fileName"}
        /\ written["fileName"] = [r \in 1..Len(Listed.repos) |-> OwnReport(r)]
        /\ first_output # <<>> => written = first_output

\* both runs wrote a report of two repositories
C20_Witness ==
    /\ run = 2
    /\ pc = "exited"
    /\ console_error = <<>>
    /\ first_output # <<>>
    /\ written = first_output
    /\ Len(written["fileName"]) = 2

AllFlagsFalse(rep) ==
    /\ ~rep.has_admin
    /\ ~rep.has_member_admin
    /\ ~rep.has_admin_team
    /\ ~rep.has_linked_collaborator

\* the listing of the repositories has been answered and nothing was thrown since
Assembled == pc \in {"write_file", "exited"} /\ uncaught = NoError

\* C21 as stated: a repository with zero teams or zero direct collaborators yields
\* a report with an empty collaborator list and all derived flags false.
C21_EitherSourceEmptyGivesEmptyReport ==
    \A r \in Reports :
        (Len(Listed.repos[r].direct) = 0 \/ Len(Listed.repos[r].teams) = 0) =>
            /\ repo_collaboration_details[r].collaborators = <<>>
            /\ AllFlagsFalse(repo_collaboration_details[r])

\* C21: every listed repository gets its report, in listing order, also when it has
\* no collaborators.  A repository with zero teams and zero direct collaborators
\* yields an empty collaborator list and has_admin, has_member_admin, has_admin_team
\* and has_linked_collaborator false; with zero direct collaborators only, the list
\* holds team members only and has_member_admin is false; with zero teams only, the
\* list holds the direct collaborators only and has_admin_team is false.  None of
\* this raises an error, and an organization with zero repositories yields an empty
\* report array, which is what is written.
C21_BothSourcesEmptyGivesEmptyReport ==
    /\ \A r \in Reports :
           LET repo == Listed.repos[r]
               rep == repo_collaboration_details[r]
           IN  /\ rep.repo_name = repo.name
               /\ (Len(repo.direct) = 0 /\ Len(repo.teams) = 0) =>
                      rep.collaborators = <<>> /\ AllFlagsFalse(rep)
               /\ Len(repo.direct) = 0 =>
                      /\ ~rep.has_member_admin
                      /\ \A j \in 1..Len(rep.collaborators) :
                             rep.collaborators[j].association_type = "team_member"
               /\ Len(repo.teams) = 0 =>
                      /\ ~rep.has_admin_team
                      /\ Len(rep.collaborators) = Len(repo.direct)
                      /\ \A j \in 1..Len(rep.collaborators) :
                             rep.collaborators[j].association_type = "direct"
    /\ Assembled => Len(repo_collaboration_details) = Len(Listed.repos)
    /\ (Assembled /\ Len(Listed.repos) = 0) =>
           /\ repo_collaboration_details = <<>>
           /\ console_error = <<>> => (pc = "exited" => written["fileName"] = <<>>)
    /\ (pc = "exited" /\ uncaught = NoError /\ console_error = <<>>) =>
           written["fileName"] = repo_collaboration_details

\* the written report of a repository without teams and collaborators, next to the
\* report of a repository without teams whose direct collaborator is an admin
C21_Witness ==
    /\ pc = "exited"
    /\ DOMAIN written = {"fileName"}
    /\ \E r, q \in 1..Len(written["fileName"]) :
           /\ Listed.repos[r].direct = <<>>
           /\ Listed.repos[r].teams = <<>>
           /\ written["fileName"][r].collaborators = <<>>
           /\ Listed.repos[q].teams = <<>>
           /\ written["fileName"][q].has_admin

----------------------------------------------------------------------------
(* utils/github/org_user_list/app.js: cross-org reconciliation.  Its copy   *)
(* of the reporter's functions is fed the member array of get_org_members. *)

\* the logins of the listed members, an array
get_org_members(org_data) == org_data.members

\* arr.hasOwnProperty(key) on an array: its own keys are its indices and "length"
ArrayHasOwnProperty(arr, key) ==
    \/ key = "length"
    \/ \E i \in 0..(Len(arr) - 1) : key = ToString(i)

user_list_get_collaborators_for_repo(repo, members) ==
    [i \in 1..Len(repo.direct) |->
        [login |-> repo.direct[i].login,
         role_name |-> repo.direct[i].role_name,
         is_member |-> ArrayHasOwnProperty(members, repo.direct[i].login),
         association_type |-> "direct"]]

user_list_get_organization_teams(org_data) ==
    LET slugs == {org_data.teams[i].slug : i \in 1..Len(org_data.teams)}
        team(s) == CHOOSE i \in 1..Len(org_data.teams) :
                       /\ org_data.teams[i].slug = s
                       /\ \A j \in (i + 1)..Len(org_data.teams) : org_data.teams[j].slug # s
    IN  [s \in slugs |-> [slug |-> s, members |-> org_data.teams[team(s)].members]]

RECURSIVE user_list_team_members_upto(_, _, _)
user_list_team_members_upto(repo, organization_teams, n) ==
    IF n = 0 THEN <<>>
    ELSE user_list_team_members_upto(repo, organization_teams, n - 1)
         \o [i \in 1..Len(organization_teams[repo.teams[n].slug].members) |->
                [login |-> organization_teams[repo.teams[n].slug].members[i],
                 role_name |-> repo.teams[n].permission,
                 is_member |-> TRUE,
                 association_type |-> "team_member"]]

user_list_get_team_members_for_repo(repo, organization_teams) ==
    user_list_team_members_upto(repo, organization_teams, Len(repo.teams))

\* repo_map of the copy: member_map and linked_member_map are both the member array
user_list_repo_map(repo, members, organization_teams) ==
    LET direct == user_list_get_collaborators_for_repo(repo, members)
        team_members == user_list_get_team_members_for_repo(repo, organization_teams)
        all == direct \o team_members
    IN  [repo_name |-> repo.name,
         archived |-> repo.archived,
         has_admin |-> \/ \E i \in 1..Len(direct) : direct[i].role_name = "admin"
                       \/ \E i \in 1..Len(team_members) :
                              team_members[i].role_name = "admin",
         has_member_admin |-> \E i \in 1..Len(direct) :
                                  /\ direct[i].role_name = "admin"
                                  /\ ArrayHasOwnProperty(members, direct[i].login),
         has_admin_team |-> \E i \in 1..Len(team_members) :
                                team_members[i].role_name = "admin",
         has_linked_collaborator |-> \E i \in 1..Len(all) :
                                         ArrayHasOwnProperty(members, all[i].login),
         has_workflows |-> FALSE,
         has_webhooks |-> FALSE,
         collaborators |-> all]

user_list_get_organization_collaboration_details(org_data) ==
    LET members == get_org_members(org_data)
        organization_teams == user_list_get_organization_teams(org_data)
    IN  [i \in 1..Len(org_data.repos) |->
            user_list_repo_map(org_data.repos[i], members, organization_teams)]

\* some repository lists a team the organization did not list: TypeError
find_collaborators_throws(org_data) ==
    \E i \in 1..Len(org_data.repos) :
    \E t \in 1..Len(org_data.repos[i].teams) :
        ~HasOwnProperty(user_list_get_organization_teams(org_data),
                        org_data.repos[i].teams[t].slug)

\* the Set of logins of the member collaborators above "pull" on unarchived repos
find_collaborators(org_data) ==
    LET details == user_list_get_organization_collaboration_details(org_data)
    IN  UNION {{details[r].collaborators[c].login :
                   c \in {c \in 1..Len(details[r].collaborators) :
                             /\ details[r].collaborators[c].is_member
                             /\ details[r].collaborators[c].role_name # "pull"}} :
               r \in {r \in 1..Len(details) : ~details[r].archived}}

\* removed_users.push(record[0])
get_bcgov_removed_members(records) ==
    [i \in 1..Len(records) |-> records[i][1]]

\* Array.prototype.includes
Includes(arr, x) == \E i \in 1..Len(arr) : arr[i] = x

rc_only_users == <<>>

bcdevops_members_excluding_rc_only_users(first) ==
    LET keep(x) == ~Includes(rc_only_users, x)
    IN  SelectSeq(first, keep)

\* faulty variant: the removed members are invited again
compute_users_to_invite_again(first, second, removed) ==
    LET not_in_bcgov(x) == ~Includes(second, x)
    IN  SelectSeq(bcdevops_members_excluding_rc_only_users(first), not_in_bcgov)

compute_users_to_invite(first, second, removed) ==
    LET not_in_bcgov(x) == ~Includes(second, x)
        not_removed(x) == ~Includes(removed, x)
    IN  SelectSeq(SelectSeq(bcdevops_members_excluding_rc_only_users(first),
                            not_in_bcgov), not_removed)

\* faulty variant: only the current members of the second organization are listed
compute_users_to_remove_existing_only(first, second, removed, collaborators) ==
    LET not_keeper(x) == x \notin collaborators
        in_bcgov(x) == Includes(second, x)
    IN  SelectSeq(SelectSeq(bcdevops_members_excluding_rc_only_users(first), not_keeper),
                  in_bcgov)

\* faulty variant: every member who is no keeper is listed for removal
compute_users_to_remove_all_non_keepers(first, second, removed, collaborators) ==
    LET not_keeper(x) == x \notin collaborators
    IN  SelectSeq(bcdevops_members_excluding_rc_only_users(first), not_keeper)

compute_users_to_remove(first, second, removed, collaborators) ==
    LET not_keeper(x) == x \notin collaborators
        in_bcgov(x) == Includes(second, x)
        was_removed(x) == Includes(removed, x)
        first_org_members_less_keepers ==
            SelectSeq(bcdevops_members_excluding_rc_only_users(first), not_keeper)
    IN  SelectSeq(first_org_members_less_keepers, in_bcgov)
        \o SelectSeq(first_org_members_less_keepers, was_removed)

----------------------------------------------------------------------------
(* The reconciliation script, one action per top-level await *)

RemovedCsvRows == {<<UserLogins[i], "removed">> : i \in 1..Len(UserLogins)}

UserListSlugs == <<"t1">>

\* process.argv[2] and process.argv[3] of org_user_list
first_org == Argument(1, FirstOrg)
second_org == Argument(2, SecondOrg)

\* the listings get_organization_collaboration_details awaits before the repo loop
organization_requests(org_data, org) ==
    <<Request("orgs.listMembers", org), Request("teams.list", org)>>
    \o [i \in 1..Len(team_slugs(org_data)) |->
           Request("teams.listMembersInOrg", team_slugs(org_data)[i])]
    \o <<Request("repos.listForOrg", org)>>

\* the two listings of every one of the first n repositories, in the loop's order
RECURSIVE repositories_requests(_, _)
repositories_requests(org_data, n) ==
    IF n = 0 THEN <<>>
    ELSE repositories_requests(org_data, n - 1)
         \o <<Request("repos.listCollaborators", org_data.repos[n].name),
              Request("repos.listTeams", org_data.repos[n].name)>>

find_collaborators_requests(org_data, org) ==
    organization_requests(org_data, org)
    \o repositories_requests(org_data, Len(org_data.repos))

\* the first repository one of whose teams the organization did not list
first_unlisted_team_repo(org_data) ==
    CHOOSE i \in 1..Len(org_data.repos) :
        /\ \E t \in 1..Len(org_data.repos[i].teams) :
               ~HasOwnProperty(user_list_get_organization_teams(org_data),
                               org_data.repos[i].teams[t].slug)
        /\ \A j \in 1..(i - 1) : \A t \in 1..Len(org_data.repos[j].teams) :
               HasOwnProperty(user_list_get_organization_teams(org_data),
                              org_data.repos[j].teams[t].slug)

\* Membership inputs: every member listing of the two organizations over UserLogins,
\* every removed-members file of at most MaxRemovedRows rows; the first organization
\* has the repository r1, on which the team t1, any of its members, can push.
UserListInputs ==
    /\ input_file \in SeqsUpTo(RemovedCsvRows, MaxRemovedRows)
    /\ \E first \in SubLists(UserLogins) : \E second \in SubLists(UserLogins) :
       \E keepers \in SubLists(first) :
           github = [o \in {FirstOrg, SecondOrg} |->
                        IF o = FirstOrg
                        THEN [members |-> first,
                              teams |-> <<[slug |-> "t1", members |-> keepers]>>,
                              repos |-> <<[name |-> "r1", archived |-> FALSE,
                                           direct |-> <<>>,
                                           teams |-> <<[slug |-> "t1",
                                                        permission |-> "push"]>>]>>]
                        ELSE [members |-> second, teams |-> <<>>, repos |-> <<>>]]
    /\ pc = "find_collaborators"
    /\ ReporterIdle
    /\ UserListIdle
    /\ IssueIdle
    /\ CopilotIdle
    /\ MannequinIdle
    /\ ScannerIdle
    /\ AppStoreIdle
    /\ ProcessStarted

\* node app.js <first org> <second org> <invitee file> <uninvitee file> <removed file>
InitUserList ==
    /\ UserListInputs
    /\ argc = 5

\* the trailing arguments may be missing; a removed-members file of at most one row
InitUserListArguments ==
    /\ UserListInputs
    /\ Len(input_file) <= 1
    /\ argc \in 0..5

\* Grant inputs: every first organization of at most MaxWorldSize listed items, with
\* archived and unarchived repositories; nobody is in the second organization.
InitFindCollaborators ==
    /\ input_file = <<>>
    /\ argc = 5
    /\ \E first \in SubLists(Logins) :
       \E t \in OrgTeamLists(first, UserListSlugs, MaxWorldSize) :
       \E r \in RepoLists(Logins, UserListSlugs, Roles, BOOLEAN, 1, MaxRepos,
                          MaxWorldSize - TeamsSize(t)) :
           github = [o \in {FirstOrg, SecondOrg} |->
                        IF o = FirstOrg
                        THEN [members |-> first, teams |-> t, repos |-> r]
                        ELSE [members |-> <<>>, teams |-> <<>>, repos |-> <<>>]]
    /\ pc = "find_collaborators"
    /\ ReporterIdle
    /\ UserListIdle
    /\ IssueIdle
    /\ CopilotIdle
    /\ MannequinIdle
    /\ ScannerIdle
    /\ AppStoreIdle
    /\ ProcessStarted

\* Array.from(await find_collaborators(first_org)): every listing of the first
\* organization is requested and answered before the script goes on
FindCollaborators ==
    /\ pc = "find_collaborators"
    /\ argc >= 1
    /\ ~find_collaborators_throws(github[FirstOrg])
    /\ org_repo_collaborators' = find_collaborators(github[FirstOrg])
    /\ requests' = requests \o find_collaborators_requests(github[FirstOrg], first_org)
    /\ pc' = "get_bcgov_removed_members"
    /\ UNCHANGED <<outsideUserList, github, input_file, argc, members_removed_from_bcgov,
                   first_org_members, second_org_members, users_to_invite,
                   users_to_remove, console_error, uncaught, written, exit_code>>

\* one of the listings is rejected (the first one, with a 404, when the organization
\* argument is missing), or a repository lists a team the organization did not list
FindCollaboratorsFails ==
    /\ pc = "find_collaborators"
    /\ LET all == find_collaborators_requests(github[FirstOrg], first_org)
       IN  \/ \E n \in 1..Len(all) : \E status \in {403, 404} :
                 /\ argc < 1 => (n = 1 /\ status = 404)
                 /\ requests' = requests \o SubSeq(all, 1, n)
                 /\ Throw([name |-> "HttpError", status |-> status])
           \/ /\ argc >= 1
              /\ find_collaborators_throws(github[FirstOrg])
              /\ requests' = requests
                     \o organization_requests(github[FirstOrg], first_org)
                     \o repositories_requests(github[FirstOrg],
                                              first_unlisted_team_repo(github[FirstOrg]))
              /\ Throw([name |-> "TypeError", status |-> 0])
    /\ UNCHANGED <<outsideUserList, userListVars, github, input_file, argc,
                   console_error, written>>

GetBcgovRemovedMembers ==
    /\ pc = "get_bcgov_removed_members"
    /\ argc >= 5
    /\ members_removed_from_bcgov' = get_bcgov_removed_members(input_file)
    /\ pc' = "get_first_org_members"
    /\ UNCHANGED <<outsideUserList, github, input_file, argc, requests,
                   org_repo_collaborators, first_org_members, second_org_members,
                   users_to_invite, users_to_remove, console_error, uncaught, written,
                   exit_code>>

\* readFile rejects (no such file, also `${cwd}/undefined` of a missing argument) or
\* parse throws on malformed CSV; nothing catches it
GetBcgovRemovedMembersFails ==
    /\ pc = "get_bcgov_removed_members"
    /\ \E name \in {"ENOENT", "CsvError"} :
          /\ argc < 5 => name = "ENOENT"
          /\ Throw([name |-> name, status |-> 0])
    /\ UNCHANGED <<outsideUserList, userListVars, github, input_file, argc, requests,
                   console_error, written>>

GetFirstOrgMembers ==
    /\ pc = "get_first_org_members"
    /\ first_org_members' = get_org_members(github[FirstOrg])
    /\ requests' = Append(requests, Request("orgs.listMembers", first_org))
    /\ pc' = "get_second_org_members"
    /\ UNCHANGED <<outsideUserList, github, input_file, argc, org_repo_collaborators,
                   members_removed_from_bcgov, second_org_members, users_to_invite,
                   users_to_remove, console_error, uncaught, written, exit_code>>

\* the filters that follow the last listing are synchronous
GetSecondOrgMembers ==
    /\ pc = "get_second_org_members"
    /\ second_org_members' = get_org_members(github[SecondOrg])
    /\ requests' = Append(requests, Request("orgs.listMembers", second_org))
    /\ users_to_invite' = compute_users_to_invite(first_org_members, second_org_members',
                                                  members_removed_from_bcgov)
    /\ users_to_remove' = compute_users_to_remove(first_org_members, second_org_members',
                                                  members_removed_from_bcgov,
                                                  org_repo_collaborators)
    /\ pc' = "write_invitee_file"
    /\ UNCHANGED <<outsideUserList, github, input_file, argc, org_repo_collaborators,
                   members_removed_from_bcgov, first_org_members,
                   console_error, uncaught, written, exit_code>>

\* the member listing of the first or of the second organization is rejected
GetOrgMembersFails ==
    /\ pc \in {"get_first_org_members", "get_second_org_members"}
    /\ \E status \in {403, 404} :
          /\ requests' = Append(requests,
                 Request("orgs.listMembers",
                         IF pc = "get_first_org_members" THEN first_org ELSE second_org))
          /\ Throw([name |-> "HttpError", status |-> status])
    /\ UNCHANGED <<outsideUserList, userListVars, github, input_file, argc,
                   console_error, written>>

\* try { await writeFile(invitee_file, ...); await writeFile(uninvitee_file, ...) }
\* catch (err) { console.error(err) }
WriteInviteeFile ==
    /\ pc = "write_invitee_file"
    /\ \E ok \in BOOLEAN :
          IF ok
          THEN /\ written' = [f \in {"invitee_file"} |-> users_to_invite]
               /\ pc' = "write_uninvitee_file"
               /\ UNCHANGED <<console_error, exit_code>>
          ELSE /\ console_error' = Append(console_error, "writeFile")
               /\ exit_code' = 0
               /\ pc' = "exited"
               /\ UNCHANGED written
    /\ UNCHANGED <<outsideUserList, userListVars, github, input_file, argc, requests,
                   uncaught>>

WriteUninviteeFile ==
    /\ pc = "write_uninvitee_file"
    /\ \E ok \in BOOLEAN :
          IF ok
          THEN /\ written' = [f \in {"invitee_file", "uninvitee_file"} |->
                                 IF f = "invitee_file" THEN written[f]
                                 ELSE users_to_remove]
               /\ UNCHANGED console_error
          ELSE /\ console_error' = Append(console_error, "writeFile")
               /\ UNCHANGED written
    /\ exit_code' = 0
    /\ pc' = "exited"
    /\ UNCHANGED <<outsideUserList, userListVars, github, input_file, argc, requests,
                   uncaught>>

NextUserList ==
    \/ FindCollaborators
    \/ FindCollaboratorsFails
    \/ GetBcgovRemovedMembers
    \/ GetBcgovRemovedMembersFails
    \/ GetFirstOrgMembers
    \/ GetSecondOrgMembers
    \/ GetOrgMembersFails
    \/ WriteInviteeFile
    \/ WriteUninviteeFile

SpecUserList == InitUserList /\ [][NextUserList]_vars

SpecFindCollaborators == InitFindCollaborators /\ [][NextUserList]_vars

\* either script, for what holds of both
SpecScripts ==
    (InitReporter \/ InitUserList) /\ [][NextReporter \/ NextUserList]_vars

\* either script, run with any number of its arguments
SpecArguments ==
    (InitReporterArguments \/ InitUserListArguments)
        /\ [][NextReporter \/ NextUserList]_vars

----------------------------------------------------------------------------
(* Properties of org_user_list/app.js *)

SourceMembers == Range(github[FirstOrg].members)
DestinationMembers == Range(github[SecondOrg].members)
RemovedLogins == {input_file[i][1] : i \in 1..Len(input_file)}

\* both lists have been computed
Reconciled ==
    /\ pc \in {"write_invitee_file", "write_uninvitee_file", "exited"}
    /\ uncaught = NoError

\* source {A,B,C}, destination {B}, removed {C}, repo-collaborators {A}
ExampleInput ==
    /\ github[FirstOrg].members = <<"A", "B", "C">>
    /\ github[SecondOrg].members = <<"B">>
    /\ RemovedLogins = {"C"}
    /\ org_repo_collaborators = {"A"}

\* C6: users_to_invite is the source members minus the destination members minus the
\* logins of the removed-members file: a login is invited exactly when it is a source
\* member, not a destination member and not removed; the example input gives {A}.
C6_InviteIsSourceMinusDestinationMinusRemoved ==
    Reconciled =>
        /\ Range(users_to_invite) =
               (SourceMembers \ DestinationMembers) \ RemovedLogins
        /\ \A l \in Range(UserLogins) :
               Includes(users_to_invite, l) <=>
                   (l \in SourceMembers /\ l \notin DestinationMembers
                    /\ l \notin RemovedLogins)
        /\ ExampleInput => users_to_invite = <<"A">>

\* the example input has been reconciled
C6_Witness == Reconciled /\ ExampleInput /\ users_to_invite = <<"A">>

\* C7: the logins of users_to_remove are the source members that are not
\* repo-collaborators (the set find_collaborators returned), intersected with the
\* destination members or removed logins: no keeper and no non-source-member is
\* listed, and a source member of the destination who is no keeper is listed.
C7_RemoveIsNonKeepersInDestinationOrRemoved ==
    Reconciled =>
        /\ Range(users_to_remove) =
               (SourceMembers \ org_repo_collaborators)
               \cap (DestinationMembers \cup RemovedLogins)
        /\ \A l \in org_repo_collaborators : ~Includes(users_to_remove, l)
        /\ \A l \in Range(UserLogins) \ SourceMembers : ~Includes(users_to_remove, l)
        /\ \A l \in (SourceMembers \cap DestinationMembers) \ org_repo_collaborators :
               Includes(users_to_remove, l)

\* the example input: B, in the destination and no keeper, is listed, and so is C
C7_Witness ==
    /\ Reconciled
    /\ ExampleInput
    /\ Includes(users_to_remove, "B")
    /\ Includes(users_to_remove, "C")
    /\ ~Includes(users_to_remove, "A")

\* C28: users_to_invite and users_to_remove are disjoint, in the computed lists and
\* in the two files written: no login is both invited to the destination
\* organization and listed for removal by the same run.
C28_InviteAndRemoveAreDisjoint ==
    /\ Reconciled => Range(users_to_invite) \cap Range(users_to_remove) = {}
    /\ DOMAIN written = {"invitee_file", "uninvitee_file"} =>
           Range(written["invitee_file"]) \cap Range(written["uninvitee_file"]) = {}

\* both files are written, with somebody to invite and somebody else to remove
\* after a removal from the destination organization
C28_Witness ==
    /\ pc = "exited"
    /\ DOMAIN written = {"invitee_file", "uninvitee_file"}
    /\ written["invitee_file"] # <<>>
    /\ \E l \in RemovedLogins \ DestinationMembers :
           Includes(written["uninvitee_file"], l)

TimesIn(arr, x) == Cardinality({i \in 1..Len(arr) : arr[i] = x})

\* C29: the users_to_remove list, as computed and as written to the output file,
\* contains each login at most once, also for a source member who is both a
\* destination member and in the removed-members file.
C29_RemoveListsEachLoginOnce ==
    /\ Reconciled => \A l \in Range(UserLogins) : TimesIn(users_to_remove, l) <= 1
    /\ "uninvitee_file" \in DOMAIN written =>
           \A l \in Range(UserLogins) : TimesIn(written["uninvitee_file"], l) <= 1

\* the members of the organization that hold push or admin on an unarchived
\* repository, by a direct grant or through a team
PushHolders(org_data) ==
    {l \in Range(org_data.members) :
        \E i \in 1..Len(org_data.repos) :
            /\ ~org_data.repos[i].archived
            /\ \/ \E j \in 1..Len(org_data.repos[i].direct) :
                      /\ org_data.repos[i].direct[j].login = l
                      /\ org_data.repos[i].direct[j].role_name \in {"push", "admin"}
               \/ \E t \in 1..Len(org_data.repos[i].teams) :
                  \E k \in 1..Len(org_data.teams) :
                      /\ org_data.repos[i].teams[t].permission \in {"push", "admin"}
                      /\ org_data.teams[k].slug = org_data.repos[i].teams[t].slug
                      /\ l \in Range(org_data.teams[k].members)}

\* C8: the set find_collaborators computes for the source org is exactly the set of
\* member logins holding push or higher, by a direct grant or through a team, on at
\* least one unarchived repository.
C8_CollaboratorsArePushHolders ==
    (pc # "find_collaborators" /\ uncaught = NoError) =>
        org_repo_collaborators = PushHolders(github[FirstOrg])

\* the output files the running script is to write
OutputFiles ==
    IF DOMAIN github = {TargetOrg} THEN {"fileName"}
    ELSE {"invitee_file", "uninvitee_file"}

\* C10 as stated: a failed write of an output file is logged and fatal, the process
\* ends with an error exit code.
C10_WriteFailureIsFatal ==
    (pc = "exited" /\ Includes(console_error, "writeFile")) => exit_code # 0

\* C10 amended: a failed write of an output file is logged by console.error and
\* swallowed: the process ends with exit code 0 and no uncaught exception, the file is
\* not written, and in org_user_list a failed write of the invite file also skips
\* the remove file.
C10_WriteFailureIsLoggedAndSwallowed ==
    (pc = "exited" /\ uncaught = NoError) =>
        /\ exit_code = 0
        /\ \/ DOMAIN written = OutputFiles /\ console_error = <<>>
           \/ /\ console_error = <<"writeFile">>
              /\ DOMAIN written \in {{}, {"invitee_file"}}

\* the reporter's write of its report failed
C10_Witness ==
    /\ pc = "exited"
    /\ console_error = <<"writeFile">>
    /\ Len(repo_collaboration_details) > 0
    /\ written = <<>>

----------------------------------------------------------------------------
(* utils/github/issue_automation/index.js: an issue, or a reminder comment  *)
(* on it, for every repository named by a line of the FILE.  The handler   *)
(* of a line starts processRepo and does not await it: the tasks of the    *)
(* lines interleave at their awaits.  Every request goes through the       *)
(* octokit throttling plugin, whose retries end in the response or the     *)
(* rejection the task sees.                                                *)

issueTitle == "ACTION REQUIRED: Confirm Repository Status"
otherTitle == "Bump dependencies"

\* octokit.request sends one GET and returns its page; with no per_page in the
\* parameters the REST API answers with the first DefaultPerPage items
first_page(listing) ==
    SubSeq(listing, 1, IF Len(listing) < DefaultPerPage THEN Len(listing)
                       ELSE DefaultPerPage)

\* the logins of GET /orgs/{org}/members with role "admin"
getOrgOwners(org_data) == first_page(org_data.admins)

\* the collaborators with push access, all pages, less the org owners
getRepoCollaborators(collaborators, orgOwners) ==
    LET not_owner(login) == ~Includes(orgOwners, login)
    IN  SelectSeq(collaborators, not_owner)

NoIssue == [number |-> 0, title |-> "undefined", body |-> <<>>, comments |-> <<>>]

\* response.data.find((issue) => issue.title === issueTitle) on the open issues
getIssue(open_issues) ==
    LET data == first_page(open_issues)
    IN  IF \E i \in 1..Len(data) : data[i].title = issueTitle
        THEN data[CHOOSE i \in 1..Len(data) :
                      /\ data[i].title = issueTitle
                      /\ \A j \in 1..(i - 1) : data[j].title # issueTitle]
        ELSE NoIssue

isCreateIssue(templateName) == templateName = "issue.mustache"

\* Mustache.render(template, { users }): the text is fixed by the template and
\* the logins it mentions
getTemplateBody(users, templateName) == [template |-> templateName, users |-> users]

OwnerLogin(i) == "owner" \o ToString(i)

RepoNames == {"r1", "r2"}

\* the open issues of a repository, newest first: `newer` issues filed after the
\* one with the hardcoded title, if there is one
OpenIssues(newer, titled) ==
    [i \in 1..newer |->
        [number |-> newer + 2 - i, title |-> otherTitle, body |-> <<>>, comments |-> <<>>]]
    \o (IF titled
        THEN <<[number |-> 1, title |-> issueTitle, body |-> <<>>, comments |-> <<>>]>>
        ELSE <<>>)

\* Every organization with no, one or a page and one owners, whose repositories r1
\* and r2 have the owners as push collaborators, r2 also dev1 and r1 possibly; r1
\* has none or a page of open issues newer than the one with the hardcoded title,
\* which r1 and r2 may or may not have; every FILE of at most MaxLines lines; each
\* kind of template of package.json, or none.
InitIssues ==
    /\ template_name \in {"issue.mustache", "reminder.mustache", "null"}
    /\ input_file \in SeqsUpTo(RepoNames, MaxLines)
    /\ \E n \in {0, 1, DefaultPerPage + 1} :
       \E devs \in SubLists(<<"dev1">>) :
           github = [o \in {IssueOrg} |->
                        [admins |-> [i \in 1..n |-> OwnerLogin(i)],
                         repos |-> [r \in RepoNames |->
                             [collaborators |->
                                  (IF r = "r1" THEN devs ELSE <<"dev1">>)
                                  \o [i \in 1..n |-> OwnerLogin(i)]]]]]
    /\ \E newer \in {0, DefaultPerPage} :
       \E titled \in [RepoNames -> BOOLEAN] :
           issues = [r \in RepoNames |->
                        OpenIssues(IF r = "r1" THEN newer ELSE 0, titled[r])]
    /\ argc = IF template_name = "null" THEN 0 ELSE 1
    /\ pc = "start"
    /\ org_owners = <<>>
    /\ lines_read = 0
    /\ tasks = <<>>
    /\ ReporterIdle
    /\ UserListIdle
    /\ CopilotIdle
    /\ MannequinIdle
    /\ ScannerIdle
    /\ AppStoreIdle
    /\ ProcessStarted

\* start() up to its first await; nothing handles its rejection
Start ==
    /\ pc = "start"
    /\ IF template_name = "null"
       THEN Throw([name |-> "Error", status |-> 0])
       ELSE pc' = "getOrgOwners" /\ UNCHANGED <<uncaught, exit_code>>
    /\ UNCHANGED <<outsideIssues, github, input_file, argc, requests, template_name,
                   org_owners, lines_read, tasks, issues, console_error, written>>

\* the page of owners has arrived; processRepos then only registers the line handler
GetOrgOwners ==
    /\ pc = "getOrgOwners"
    /\ IF Len(getOrgOwners(github[IssueOrg])) > 0
       THEN /\ org_owners' = getOrgOwners(github[IssueOrg])
            /\ pc' = "processRepos"
            /\ UNCHANGED <<uncaught, exit_code>>
       ELSE /\ Throw([name |-> "Error", status |-> 0])
            /\ UNCHANGED org_owners
    /\ UNCHANGED <<outsideIssues, github, input_file, argc, requests, template_name,
                   lines_read, tasks, issues, console_error, written>>

GetOrgOwnersFails ==
    /\ pc = "getOrgOwners"
    /\ \E status \in {403, 404} : Throw([name |-> "HttpError", status |-> status])
    /\ UNCHANGED <<outsideIssues, github, input_file, argc, requests, template_name,
                   org_owners, lines_read, tasks, issues, console_error, written>>

\* faulty variant: a line waits in a queue while the task of an earlier line runs
ReadLineQueued ==
    /\ pc = "processRepos"
    /\ lines_read < Len(input_file)
    /\ lines_read' = lines_read + 1
    /\ tasks' = Append(tasks,
           [repo |-> input_file[lines_read'],
            pc |-> IF \E k \in 1..Len(tasks) : tasks[k].pc # "done" THEN "queued"
                   ELSE "getRepoCollaborators",
            users |-> <<>>, log |-> <<>>])
    /\ UNCHANGED <<outsideIssues, github, input_file, argc, pc, requests, template_name,
                   org_owners, issues, console_error, uncaught, written, exit_code>>

\* file.on("line", (repo) => { processRepo(repo, orgOwners, templateName) }): the
\* task runs up to its first await, the collaborator listing
ReadLine ==
    /\ pc = "processRepos"
    /\ lines_read < Len(input_file)
    /\ lines_read' = lines_read + 1
    /\ tasks' = Append(tasks,
           [repo |-> input_file[lines_read'], pc |-> "getRepoCollaborators",
            users |-> <<>>, log |-> <<>>])
    /\ UNCHANGED <<outsideIssues, github, input_file, argc, pc, requests, template_name,
                   org_owners, issues, console_error, uncaught, written, exit_code>>

\* task k: the collaborator listing settles (a rejection is logged and leaves no
\* users); the body is rendered; createIssue or commentOnIssue looks the issue up
GetRepoCollaborators(k) ==
    /\ tasks[k].pc = "getRepoCollaborators"
    /\ \E ok \in BOOLEAN :
          LET users == IF ok
                       THEN getRepoCollaborators(
                                github[IssueOrg].repos[tasks[k].repo].collaborators,
                                org_owners)
                       ELSE <<>>
              logged == (IF ok THEN <<>> ELSE <<"error: Error getting collaborators">>)
                        \o (IF Len(users) = 0 THEN <<"warn: No users to mention">>
                            ELSE <<>>)
          IN  tasks' = [tasks EXCEPT ![k] =
                           [repo |-> @.repo, pc |-> "getIssue", users |-> users,
                            log |-> @.log \o logged]]
    /\ UNCHANGED <<outsideIssues, github, input_file, argc, pc, requests, template_name,
                   org_owners, lines_read, issues, console_error, uncaught, written,
                   exit_code>>

\* task k: the page of open issues has arrived.  createIssue skips the repository
\* or posts the issue; commentOnIssue reads response.data.items of the issue that
\* getIssue returned, which throws a TypeError into its catch block
GetIssue(k) ==
    /\ tasks[k].pc = "getIssue"
    /\ LET response == getIssue(issues[tasks[k].repo])
           next == IF isCreateIssue(template_name) /\ response = NoIssue
                   THEN "createIssue" ELSE "done"
           logged == IF isCreateIssue(template_name)
                     THEN IF response # NoIssue
                          THEN <<"warn: Skipping, issue already exists.">>
                          ELSE <<>>
                     ELSE IF response # NoIssue
                          THEN <<"error: Request failed:", "error: TypeError">>
                          ELSE <<"error: Could not find issue for repo">>
       IN  tasks' = [tasks EXCEPT ![k] =
                        [repo |-> @.repo, pc |-> next, users |-> @.users,
                         log |-> @.log \o logged]]
    /\ UNCHANGED <<outsideIssues, github, input_file, argc, pc, requests, template_name,
                   org_owners, lines_read, issues, console_error, uncaught, written,
                   exit_code>>

\* task k: the issue listing is rejected; getIssue logs and rethrows; createIssue
\* logs one entry, commentOnIssue two: "Request failed:" and the error's message
GetIssueFails(k) ==
    /\ tasks[k].pc = "getIssue"
    /\ \E status \in {403, 404} :
          tasks' = [tasks EXCEPT ![k] =
                       [repo |-> @.repo, pc |-> "done", users |-> @.users,
                        log |-> @.log \o <<"error: Error fetching issues for repo">>
                                      \o (IF isCreateIssue(template_name)
                                          THEN <<"error: Error processing">>
                                          ELSE <<"error: Request failed:",
                                                 "error: HttpError "
                                                     \o ToString(status)>>)]]
    /\ UNCHANGED <<outsideIssues, github, input_file, argc, pc, requests, template_name,
                   org_owners, lines_read, issues, console_error, uncaught, written,
                   exit_code>>

\* task k: POST /repos/{org}/{repo}/issues succeeded: the repository has a new issue
CreateIssue(k) ==
    /\ tasks[k].pc = "createIssue"
    /\ issues' = [issues EXCEPT ![tasks[k].repo] =
                     <<[number |-> Len(@) + 1, title |-> issueTitle,
                        body |-> getTemplateBody(tasks[k].users, template_name),
                        comments |-> <<>>]>> \o @]
    /\ tasks' = [tasks EXCEPT ![k] =
                    [repo |-> @.repo, pc |-> "done", users |-> @.users, log |-> @.log]]
    /\ UNCHANGED <<outsideIssues, github, input_file, argc, pc, requests, template_name,
                   org_owners, lines_read, console_error, uncaught, written, exit_code>>

CreateIssueFails(k) ==
    /\ tasks[k].pc = "createIssue"
    /\ tasks' = [tasks EXCEPT ![k] =
                    [repo |-> @.repo, pc |-> "done", users |-> @.users,
                     log |-> @.log \o <<"error: Error processing">>]]
    /\ UNCHANGED <<outsideIssues, github, input_file, argc, pc, requests, template_name,
                   org_owners, lines_read, issues, console_error, uncaught, written,
                   exit_code>>

\* the FILE is read and no task is pending: the event loop is empty, node exits
IssuesExit ==
    /\ pc = "processRepos"
    /\ lines_read = Len(input_file)
    /\ \A k \in 1..Len(tasks) : tasks[k].pc = "done"
    /\ pc' = "exited"
    /\ exit_code' = 0
    /\ UNCHANGED <<outsideIssues, github, input_file, argc, requests, template_name,
                   org_owners, lines_read, tasks, issues, console_error, uncaught,
                   written>>

NextIssues ==
    \/ Start
    \/ GetOrgOwners
    \/ GetOrgOwnersFails
    \/ ReadLine
    \/ \E k \in 1..Len(tasks) : GetRepoCollaborators(k)
    \/ \E k \in 1..Len(tasks) : GetIssue(k)
    \/ \E k \in 1..Len(tasks) : GetIssueFails(k)
    \/ \E k \in 1..Len(tasks) : CreateIssue(k)
    \/ \E k \in 1..Len(tasks) : CreateIssueFails(k)
    \/ IssuesExit

SpecIssues == InitIssues /\ [][NextIssues]_vars

----------------------------------------------------------------------------
(* Properties of issue_automation/index.js *)

Tasks == 1..Len(tasks)

HasTitledIssue(repo) ==
    \E i \in 1..Len(issues[repo]) : issues[repo][i].title = issueTitle

Logged(k, message) == \E i \in 1..Len(tasks[k].log) : tasks[k].log[i] = message

\* C12: in create mode a repository that already has an open issue with the hardcoded
\* title gets no new issue: createIssue posts one only when no such issue is open.
C12_NoIssueCreatedWhenOneIsOpen ==
    [][\A repo \in RepoNames : HasTitledIssue(repo) => issues'[repo] = issues[repo]]_vars

\* C13: in reminder mode, for every repository of the FILE that has an open issue
\* with the hardcoded title, commentOnIssue posts one comment with the rendered body
\* on that issue; with no such issue it posts nothing and logs an error.
C13_ReminderCommentsOnTheIssue ==
    (template_name # "null" /\ ~isCreateIssue(template_name)) =>
        \A k \in Tasks :
            (tasks[k].pc = "done" /\ ~Logged(k, "error: Error fetching issues for repo")) =>
                IF HasTitledIssue(tasks[k].repo)
                THEN \E i \in 1..Len(issues[tasks[k].repo]) :
                         /\ issues[tasks[k].repo][i].title = issueTitle
                         /\ \E c \in 1..Len(issues[tasks[k].repo][i].comments) :
                                issues[tasks[k].repo][i].comments[c] =
                                    getTemplateBody(tasks[k].users, template_name)
                ELSE Logged(k, "error: Could not find issue for repo")

\* the issues with the hardcoded title that createIssue posted on a repository
CreatedIssues(repo) ==
    {i \in 1..Len(issues[repo]) :
        issues[repo][i].title = issueTitle /\ DOMAIN issues[repo][i].body # {}}

\* C30: in one create-mode run at most one issue with the hardcoded title is
\* created per repository, under every interleaving of the per-line tasks, also
\* when the same repository is on more than one line of the FILE.
C30_AtMostOneIssueCreatedPerRepository ==
    isCreateIssue(template_name) =>
        \A repo \in RepoNames : Cardinality(CreatedIssues(repo)) <= 1

\* C14: the users a task mentions are exactly the push collaborators of its
\* repository that are not org administrators; no administrator login is ever
\* mentioned, however many administrators the organization has.
C14_MentionsExcludeEveryOwner ==
    \A k \in Tasks :
        (tasks[k].pc # "getRepoCollaborators"
         /\ ~Logged(k, "error: Error getting collaborators")) =>
            /\ \A i \in 1..Len(tasks[k].users) :
                   ~Includes(github[IssueOrg].admins, tasks[k].users[i])
            /\ Range(tasks[k].users) =
                   Range(github[IssueOrg].repos[tasks[k].repo].collaborators)
                   \ Range(github[IssueOrg].admins)

\* the tasks that await the response to a request
TasksInFlight ==
    {k \in Tasks : tasks[k].pc \in {"getRepoCollaborators", "getIssue", "createIssue"}}

\* C17 as stated: the repository tasks go through a queue that lets one run at a
\* time: at no time is more than one repository task in flight.
C17_AtMostOneTaskInFlight == Cardinality(TasksInFlight) <= 1

\* C17 amended: index.js puts no queue of tasks before processRepo: a task is
\* started for every line as soon as the line is read, whether or not the tasks of
\* earlier lines have finished, so as many tasks can be in flight at once as lines
\* have been read; the k-th task is that of the k-th line, and a started task is
\* finished or at one of its awaited steps (collaborator listing, issue lookup,
\* issue creation).
C17_EveryLineStartsItsTask ==
    /\ Len(tasks) = lines_read
    /\ \A k \in Tasks : tasks[k].pc = "done" \/ k \in TasksInFlight
    /\ \A k \in Tasks : tasks[k].repo = input_file[k]

\* the tasks of two lines are in flight at once
C17_Witness ==
    /\ Cardinality(TasksInFlight) = 2
    /\ \E k \in Tasks : tasks[k].pc = "getIssue"

----------------------------------------------------------------------------
(* utils/github/copilot/copilot_onboarding.ts: a Copilot seat for every    *)
(* input user, then the cohort team for the members of the cohort          *)
(* organization and an invitation for the others.  One action per await    *)
(* of configureUserForCopilot; GITHUB_TOKEN is set.                        *)

CopilotUsers == <<"u1", "u2">>

\* the listed users and one login GitHub does not know
CopilotIds == Range(CopilotUsers) \cup {"ghost"}

CohortMembers == Range(github[CohortOrg].members)

\* Every cohort organization over CopilotUsers and every input of at most MaxUsers
\* ids; the script is given its four arguments, or only the first one.
InitCopilot ==
    /\ input_file \in SeqsUpTo(CopilotIds, MaxUsers)
    /\ \E m \in SubLists(CopilotUsers) :
           github = [o \in {CopilotOrg, CohortOrg} |->
                        [members |-> IF o = CohortOrg THEN m ELSE <<>>]]
    /\ argc \in {1, 4}
    /\ pc = "main"
    /\ ReporterIdle
    /\ UserListIdle
    /\ IssueIdle
    /\ CopilotIdle
    /\ MannequinIdle
    /\ ScannerIdle
    /\ AppStoreIdle
    /\ ProcessStarted

\* main up to the first await of the loop: the usage check, then the ids are read.
\* processCsvFile listens for 'error' on the csv transform only: a file that cannot
\* be opened or read makes the read stream emit an 'error' nobody listens for, and
\* node ends with it; an error of the transform is logged by the listener and, the
\* promise rejected, once more by the catch block of main
CopilotMain ==
    /\ pc = "main"
    /\ IF argc < 2
       THEN /\ console_error' = Append(console_error, "Usage")
            /\ exit_code' = 1
            /\ pc' = "exited"
            /\ UNCHANGED <<user_idx, uncaught>>
       ELSE \/ /\ \E code \in {"ENOENT", "EISDIR"} :
                     Throw([name |-> code, status |-> 0])
               /\ UNCHANGED <<user_idx, console_error>>
            \/ /\ console_error' = console_error
                                       \o <<"Error reading CSV file", "Error">>
               /\ exit_code' = 0
               /\ pc' = "exited"
               /\ UNCHANGED <<user_idx, uncaught>>
            \/ /\ IF Len(input_file) = 0
                  THEN /\ exit_code' = 0
                       /\ pc' = "exited"
                       /\ UNCHANGED user_idx
                  ELSE /\ user_idx' = 1
                       /\ pc' = "assignCopilotLicense"
                       /\ UNCHANGED exit_code
               /\ UNCHANGED <<console_error, uncaught>>
    /\ UNCHANGED <<outsideCopilot, github, input_file, argc, requests, copilot_seats,
                   cohort_team, invitations, written>>

\* try { POST selected_users } catch { console.error }: the loop goes on either way
AssignCopilotLicense ==
    /\ pc = "assignCopilotLicense"
    /\ requests' = Append(requests,
           Request("copilot.addCopilotSeatsForUsers", input_file[user_idx]))
    /\ \E ok \in BOOLEAN :
          IF ok
          THEN /\ copilot_seats' = copilot_seats \cup {input_file[user_idx]}
               /\ UNCHANGED console_error
          ELSE /\ console_error' = Append(console_error, "Failed to assign Copilot license")
               /\ UNCHANGED copilot_seats
    /\ pc' = "isUserInOrg"
    /\ UNCHANGED <<outsideCopilot, github, input_file, argc, user_idx, cohort_team,
                   invitations, uncaught, written, exit_code>>

\* faulty variant: the answer of the membership check is not looked at
IsUserInOrgIgnored ==
    /\ pc = "isUserInOrg"
    /\ requests' = Append(requests,
           Request("orgs.checkMembershipForUser", input_file[user_idx]))
    /\ pc' = "addUserToTeam"
    /\ UNCHANGED <<outsideCopilot, github, input_file, argc, user_idx, copilot_seats,
                   cohort_team, invitations, console_error, uncaught, written,
                   exit_code>>

\* checkMembershipForUser answers 204 for a member and 404 for anyone else: the
\* 404 is caught and read as "not a member"
IsUserInOrg ==
    /\ pc = "isUserInOrg"
    /\ requests' = Append(requests,
           Request("orgs.checkMembershipForUser", input_file[user_idx]))
    /\ pc' = IF input_file[user_idx] \in CohortMembers THEN "addUserToTeam"
             ELSE "inviteUserToOrg"
    /\ UNCHANGED <<outsideCopilot, github, input_file, argc, user_idx, copilot_seats,
                   cohort_team, invitations, console_error, uncaught, written,
                   exit_code>>

\* any other rejection is rethrown by isUserInOrg; configureUserForCopilot has no
\* catch, so it leaves the loop and reaches the catch of main, which logs it
IsUserInOrgFails ==
    /\ pc = "isUserInOrg"
    /\ requests' = Append(requests,
           Request("orgs.checkMembershipForUser", input_file[user_idx]))
    /\ console_error' = Append(console_error, "Error")
    /\ exit_code' = 0
    /\ pc' = "exited"
    /\ UNCHANGED <<outsideCopilot, github, input_file, argc, user_idx, copilot_seats,
                   cohort_team, invitations, uncaught, written>>

\* the end of the loop body: the next id, or main returns
NextUser ==
    /\ user_idx' = user_idx + 1
    /\ IF user_idx' > Len(input_file)
       THEN pc' = "exited" /\ exit_code' = 0
       ELSE pc' = "assignCopilotLicense" /\ UNCHANGED exit_code

AddUserToTeam ==
    /\ pc = "addUserToTeam"
    /\ requests' = Append(requests,
           Request("teams.addOrUpdateMembershipForUserInOrg", input_file[user_idx]))
    /\ \E ok \in BOOLEAN :
          IF ok
          THEN /\ cohort_team' = cohort_team \cup {input_file[user_idx]}
               /\ UNCHANGED console_error
          ELSE /\ console_error' = Append(console_error, "Failed to add")
               /\ UNCHANGED cohort_team
    /\ NextUser
    /\ UNCHANGED <<outsideCopilot, github, input_file, argc, copilot_seats,
                   invitations, uncaught, written>>

\* try { getByUsername; createInvitation } catch { console.error }: an unknown
\* login fails the first request, and the invitation itself may be rejected
InviteUserToOrg ==
    /\ pc = "inviteUserToOrg"
    /\ \E known \in BOOLEAN : \E ok \in BOOLEAN :
          /\ input_file[user_idx] \notin Range(CopilotUsers) => ~known
          /\ ~known => ~ok
          /\ requests' = requests
                 \o <<Request("users.getByUsername", input_file[user_idx])>>
                 \o (IF known
                     THEN <<Request("orgs.createInvitation", input_file[user_idx])>>
                     ELSE <<>>)
          /\ IF ok
             THEN /\ invitations' = invitations \cup {input_file[user_idx]}
                  /\ UNCHANGED console_error
             ELSE /\ console_error' = Append(console_error, "Failed to invite")
                  /\ UNCHANGED invitations
    /\ NextUser
    /\ UNCHANGED <<outsideCopilot, github, input_file, argc, copilot_seats,
                   cohort_team, uncaught, written>>

NextCopilot ==
    \/ CopilotMain
    \/ AssignCopilotLicense
    \/ IsUserInOrg
    \/ IsUserInOrgFails
    \/ AddUserToTeam
    \/ InviteUserToOrg

SpecCopilot == InitCopilot /\ [][NextCopilot]_vars

----------------------------------------------------------------------------
(* Properties of copilot_onboarding.ts *)

RequestsOf(api, id) ==
    Cardinality({i \in 1..Len(requests) : requests[i] = Request(api, id)})

\* how often an id occurs among the first n input ids
TimesListed(id, n) == Cardinality({i \in 1..n : i <= Len(input_file) /\ input_file[i] = id})

\* C15: for each input user exactly one of two actions is taken, as the membership
\* check says: a member of the cohort organization is added to the cohort team and
\* not invited; a user who is no member (the check answers 404) is sent an
\* invitation and not added to the team.
C15_MemberAddedElseInvited ==
    \A id \in Range(input_file) :
        /\ id \in CohortMembers =>
               /\ RequestsOf("users.getByUsername", id) = 0
               /\ RequestsOf("orgs.createInvitation", id) = 0
               /\ id \notin invitations
               /\ RequestsOf("teams.addOrUpdateMembershipForUserInOrg", id)
                      = TimesListed(id, user_idx - 1)
        /\ id \notin CohortMembers =>
               /\ RequestsOf("teams.addOrUpdateMembershipForUserInOrg", id) = 0
               /\ id \notin cohort_team
               /\ RequestsOf("users.getByUsername", id) = TimesListed(id, user_idx - 1)
               /\ RequestsOf("orgs.createInvitation", id) <= TimesListed(id, user_idx - 1)
               /\ id \in invitations => RequestsOf("orgs.createInvitation", id) > 0

\* a member and a non-member were onboarded: one is on the team, the other invited
C15_Witness ==
    /\ pc = "exited"
    /\ cohort_team = {"u1"}
    /\ invitations = {"u2"}
    /\ Len(input_file) = 2

\* C16: any error met while onboarding one user (license assignment, membership
\* check, team add or invitation) is logged and the loop goes on with the next user:
\* every input user is attempted, whatever failed for earlier users.
C16_EveryUserIsAttempted ==
    (pc = "exited" /\ argc >= 2 /\ requests # <<>>) =>
        \A i \in 1..Len(input_file) :
            RequestsOf("copilot.addCopilotSeatsForUsers", input_file[i]) > 0

----------------------------------------------------------------------------
(* Input errors of the two scripts *)

ReporterRuns == DOMAIN github = {TargetOrg}

\* the arguments the running script reads from process.argv
RequiredArguments == IF ReporterRuns THEN 3 ELSE 5

\* the input CSV could not be read or parsed
CsvFailed == uncaught.name \in {"ENOENT", "CsvError"}

\* C11 as stated: in both scripts a malformed or unreadable input CSV, or a missing
\* required argument, makes the run fail before any API call is issued.
C11_InputErrorFailsBeforeApiCalls ==
    /\ CsvFailed => requests = <<>>
    /\ argc < RequiredArguments => requests = <<>>
    /\ (pc = "exited" /\ argc < RequiredArguments) => exit_code = 1

\* C11 amended: only the reporter reads its CSV first: there a malformed or unreadable
\* linked-members file, also the one of a missing first argument, ends the run with
\* an uncaught exception and exit code 1 before any API call.  org_user_list reads
\* the removed-members file after find_collaborators, so the same error ends the run
\* after the listings of find_collaborators for the first organization were
\* requested.  No other argument is checked before the API is called: the
\* arguments being positional, a reporter run that has its CSV but lacks the output
\* file name or the organization has no organization and ends on its first listing
\* request, rejected with a 404; an org_user_list run that lacks an argument issues
\* at least one request and ends with an uncaught exception and exit code 1.
C11_OnlyReporterCsvFailsBeforeApiCalls ==
    /\ (ReporterRuns /\ CsvFailed) =>
           requests = <<>> /\ exit_code = 1 /\ written = <<>>
    /\ (ReporterRuns /\ argc = 0 /\ pc = "exited") => CsvFailed
    /\ (~ReporterRuns /\ CsvFailed) =>
           /\ requests = find_collaborators_requests(github[FirstOrg], first_org)
           /\ exit_code = 1
           /\ written = <<>>
    /\ (~ReporterRuns /\ argc < 5 /\ pc = "exited") =>
           uncaught # NoError /\ exit_code = 1
    /\ (pc = "exited" /\ ~(ReporterRuns /\ CsvFailed)) => requests # <<>>
    /\ (ReporterRuns /\ argc \in {1, 2} /\ pc = "exited" /\ ~CsvFailed) =>
           /\ uncaught = [name |-> "HttpError", status |-> 404]
           /\ Len(requests) = 1
           /\ exit_code = 1
           /\ written = <<>>

\* org_user_list met a malformed removed-members file after it had called the API
C11_Witness ==
    /\ ~ReporterRuns
    /\ pc = "exited"
    /\ uncaught.name = "CsvError"
    /\ Len(requests) > 0

----------------------------------------------------------------------------
(* utils/github/org_user_list: the mannequin filter.  A Map is the sequence *)
(* of its entries in insertion order; a line of the output is its text.    *)

MaxCsvRows == 2

\* String.prototype.trim on the texts of the explored files
Trim(text) ==
    IF text = " m1" THEN "m1"
    ELSE IF text = " 1.0.1" THEN "1.0.1"
    ELSE IF text = " " THEN ""
    ELSE text

MapHas(map, key) == \E i \in 1..Len(map) : map[i].key = key

MapGet(map, key) == map[CHOOSE i \in 1..Len(map) : map[i].key = key].value

\* Map.prototype.set: a known key keeps its place and takes the new value
MapSet(map, key, value) ==
    IF MapHas(map, key)
    THEN [i \in 1..Len(map) |->
             IF map[i].key = key THEN [key |-> key, value |-> value] ELSE map[i]]
    ELSE Append(map, [key |-> key, value |-> value])

\* on "data": key = row[keyField]?.trim(); if (key) map.set(key, [row[field]?.trim()])
RECURSIVE readCSVToMap(_, _, _)
readCSVToMap(rows, keyField, valueField) ==
    IF Len(rows) = 0 THEN <<>>
    ELSE LET map == readCSVToMap(SubSeq(rows, 1, Len(rows) - 1), keyField, valueField)
             row == rows[Len(rows)]
             key == Trim(row[keyField])
         IN  IF key # ""
             THEN MapSet(map, key, <<Trim(row[valueField])>>)
             ELSE map

\* faulty variant: every mannequin gets a row, with or without a mapping
processFilesUnfiltered(mannequin_map, mapping_map) ==
    [i \in 1..Len(mannequin_map) |->
        [mannequin_user |-> mannequin_map[i].key,
         mannequin_id |-> mannequin_map[i].value[1],
         target_user |-> IF MapHas(mapping_map, mannequin_map[i].key)
                         THEN MapGet(mapping_map, mannequin_map[i].key)[1]
                         ELSE "undefined"]]

\* for (const [mannequinUser, mannequinData] of mannequins.entries())
\*     if (mapping.has(mannequinUser)) output.push({...})
processFiles(mannequin_map, mapping_map) ==
    LET mapped(entry) == MapHas(mapping_map, entry.key)
        matching == SelectSeq(mannequin_map, mapped)
    IN  [i \in 1..Len(matching) |->
            [mannequin_user |-> matching[i].key,
             mannequin_id |-> matching[i].value[1],
             target_user |-> MapGet(mapping_map, matching[i].key)[1]]]

\* the header line and `${mannequin-user},${mannequin-id},${target-user}\n` per row
outputLines(output) ==
    <<"mannequin-user,mannequin-id,target-user">>
    \o [i \in 1..Len(output) |->
           output[i].mannequin_user \o "," \o output[i].mannequin_id \o ","
           \o output[i].target_user]

\* a parsed row: column name -> cell text
CsvRow(keyField, key, valueField, value) ==
    [field \in {keyField, valueField} |-> IF field = keyField THEN key ELSE value]

\* the rows of the file of the reclaim process: a mannequin name and an id
MannequinFileRows ==
    {CsvRow("mannequin-user", name, "mannequin-id", id) :
        name \in {"m1", "m2"}, id \in {"id1", "id2"}}

\* the rows of the hand-written mapping file: an origin, padded or blank at times,
\* and a destination
MappingFileRows ==
    {CsvRow("origin", origin, "destination", destination) :
        origin \in {"m1", " m1", "m3", " "}, destination \in {"d1", "d2"}}

\* every mannequins file and every mapping file of at most MaxCsvRows rows
InitMannequins ==
    /\ mannequin_file \in SeqsUpTo(MannequinFileRows, MaxCsvRows)
    /\ mapping_file \in SeqsUpTo(MappingFileRows, MaxCsvRows)
    /\ mannequins = <<>>
    /\ mapping = <<>>
    /\ github = <<>>
    /\ input_file = <<>>
    /\ argc = 0
    /\ pc = "read_mannequins"
    /\ ReporterIdle
    /\ UserListIdle
    /\ IssueIdle
    /\ CopilotIdle
    /\ ScannerIdle
    /\ AppStoreIdle
    /\ ProcessStarted

\* the mannequins file has been read to its end
ReadMannequins ==
    /\ pc = "read_mannequins"
    /\ mannequins' = readCSVToMap(mannequin_file, "mannequin-user", "mannequin-id")
    /\ pc' = "read_mapping"
    /\ UNCHANGED <<outsideMannequin, mannequin_file, mapping_file, mapping,
                   console_error, written, exit_code>>

\* the mapping file has been read to its end; the matching records are computed and
\* handed to the output stream, all in one go
ReadMapping ==
    /\ pc = "read_mapping"
    /\ mapping' = readCSVToMap(mapping_file, "origin", "destination")
    /\ pc' = "write_output"
    /\ UNCHANGED <<outsideMannequin, mannequin_file, mapping_file, mannequins,
                   console_error, written, exit_code>>

\* MANNEQUIN_FILE or MAPPING_FILE is unset (createReadStream throws inside the
\* promise) or the csv parser emits "error": the promise rejects into the catch of
\* processFiles, which logs it
ReadCsvFails ==
    /\ pc \in {"read_mannequins", "read_mapping"}
    /\ console_error' = Append(console_error, "Error processing files:")
    /\ exit_code' = 0
    /\ pc' = "exited"
    /\ UNCHANGED <<outsideMannequin, mannequinVars, written>>

\* the file cannot be opened: the read stream emits "error", and the only listener
\* is on the csv parser it is piped into: node exits on the unhandled event
ReadStreamFails ==
    /\ pc \in {"read_mannequins", "read_mapping"}
    /\ Throw([name |-> "ENOENT", status |-> 0])
    /\ UNCHANGED <<reporterVars, userListVars, issueVars, copilotVars, scannerVars,
                   appStoreVars, run, first_output, github, input_file, argc,
                   requests, mannequinVars, console_error, written>>

\* OUTPUT_FILE is unset: createWriteStream throws into the catch of processFiles
CreateWriteStreamThrows ==
    /\ pc = "write_output"
    /\ console_error' = Append(console_error, "Error processing files:")
    /\ exit_code' = 0
    /\ pc' = "exited"
    /\ UNCHANGED <<outsideMannequin, mannequinVars, written>>

\* the output stream has flushed the header and the rows
WriteOutput ==
    /\ pc = "write_output"
    /\ written' = [f \in {"OUTPUT_FILE"} |-> outputLines(processFiles(mannequins, mapping))]
    /\ exit_code' = 0
    /\ pc' = "exited"
    /\ UNCHANGED <<outsideMannequin, mannequinVars, console_error>>

\* the output stream emits "error", which has no listener: node exits on it
WriteOutputFails ==
    /\ pc = "write_output"
    /\ Throw([name |-> "EACCES", status |-> 0])
    /\ UNCHANGED <<reporterVars, userListVars, issueVars, copilotVars, scannerVars,
                   appStoreVars, run, first_output, github, input_file, argc,
                   requests, mannequinVars, console_error, written>>

NextMannequins ==
    \/ ReadMannequins
    \/ ReadMapping
    \/ ReadCsvFails
    \/ ReadStreamFails
    \/ WriteOutput
    \/ CreateWriteStreamThrows
    \/ WriteOutputFails

SpecMannequins == InitMannequins /\ [][NextMannequins]_vars

\* the names of the file rows, as the Maps key them
MannequinUsers ==
    {Trim(mannequin_file[i]["mannequin-user"]) : i \in 1..Len(mannequin_file)} \ {""}

Origins == {Trim(mapping_file[i]["origin"]) : i \in 1..Len(mapping_file)} \ {""}

\* the last row of the file with that name
LastRow(file, field, name) ==
    file[CHOOSE i \in 1..Len(file) :
             /\ Trim(file[i][field]) = name
             /\ \A j \in (i + 1)..Len(file) : Trim(file[j][field]) # name]

ExpectedLine(name) ==
    name \o ","
    \o Trim(LastRow(mannequin_file, "mannequin-user", name)["mannequin-id"]) \o ","
    \o Trim(LastRow(mapping_file, "origin", name)["destination"])

\* C22: the output file holds the header and then exactly one row for each
\* mannequin-user of the mannequins file whose name, trimmed, is an origin of the
\* mapping file: the name, the mannequin's id (of the last row with that name) and
\* the mapped destination (of the last row with that origin); a mannequin without a
\* mapping entry has no row.
C22_OneRowPerMappedMannequin ==
    "OUTPUT_FILE" \in DOMAIN written =>
        LET lines == written["OUTPUT_FILE"]
        IN  /\ lines[1] = "mannequin-user,mannequin-id,target-user"
            /\ Len(lines) = 1 + Cardinality(MannequinUsers \cap Origins)
            /\ \A name \in MannequinUsers \cap Origins :
                   Cardinality({j \in 2..Len(lines) : lines[j] = ExpectedLine(name)}) = 1
            /\ \A name \in MannequinUsers \ Origins :
               \A id \in {"id1", "id2"} : \A target \in {"d1", "d2", "undefined"} :
               \A j \in 2..Len(lines) :
                   lines[j] # name \o "," \o id \o "," \o target

\* m1 is mapped through a padded origin and has its row, m2 has no mapping and no row
C22_Witness ==
    /\ pc = "exited"
    /\ "OUTPUT_FILE" \in DOMAIN written
    /\ MannequinUsers = {"m1", "m2"}
    /\ Origins = {"m1"}
    /\ \E i \in 1..Len(mapping_file) : mapping_file[i]["origin"] = " m1"
    /\ Len(written["OUTPUT_FILE"]) = 2

----------------------------------------------------------------------------
(* utils/github/Shai-Hulud-scanner/scan-org.js.  A line of the list of     *)
(* compromised packages is the sequence of its tab-separated parts, the    *)
(* second part the sequence of its comma-separated pieces; an SBOM package *)
(* without versionInfo has the versionInfo "undefined".                    *)

MaxListLines == 2
MaxRateLimited == 1

maxAttempts == 5
baseDelayMs == 1000
PerPage == 100
\* the x-ratelimit-reset header of a rate-limited response, in seconds, and
\* Date.now() when it arrives, in ms
RateLimitReset == 3
DateNow == 1500

ScanOrg == "scan-org"

\* the parts of a line, Array.prototype.map(v => v.trim()) over the pieces
loadCompromisedLine(line) == [i \in 1..Len(line[2]) |-> Trim(line[2][i])]

\* lines with a blank text or without a tab are skipped; a later line of a package
\* replaces the earlier one
RECURSIVE loadCompromisedPackages(_)
loadCompromisedPackages(lines) ==
    IF Len(lines) = 0 THEN <<>>
    ELSE LET compromised == loadCompromisedPackages(SubSeq(lines, 1, Len(lines) - 1))
             line == lines[Len(lines)]
         IN  IF Len(line) = 1 /\ Trim(line[1]) = "" THEN compromised
             ELSE IF Len(line) < 2 THEN compromised
             ELSE [pkg \in DOMAIN compromised \cup {Trim(line[1])} |->
                      IF pkg = Trim(line[1]) THEN loadCompromisedLine(line)
                      ELSE compromised[pkg]]

\* pkg.SPDXID.includes("npm")
includesNpm(SPDXID) == SPDXID \in {"SPDXRef-npm-pkg-a", "SPDXRef-npm-pkg-b"}

\* a non-empty string is truthy; a missing versionInfo is not
truthy(versionInfo) == versionInfo \notin {"", "undefined"}

\* versionInfo.replace(/[\\^:]+/, "") on the versions of the explored SBOMs
replaceCaret(versionInfo) ==
    IF versionInfo = "^1.0.0" THEN "1.0.0" ELSE versionInfo

\* const version = pkg.versionInfo ? "" : pkg.versionInfo.replace(/[\\^:]+/, "")
versionOf(pkg) == IF truthy(pkg.versionInfo) THEN "" ELSE replaceCaret(pkg.versionInfo)

\* the call of replace on a missing versionInfo throws inside the try: skipped
packageThrows(pkg) == pkg.versionInfo = "undefined"

\* the packages pushed to found, in SBOM order
findCompromisedInGraph(packages, compromised) ==
    LET hit(pkg) ==
            /\ includesNpm(pkg.SPDXID)
            /\ ~packageThrows(pkg)
            /\ pkg.name \in DOMAIN compromised
            /\ Includes(compromised[pkg.name], versionOf(pkg))
        hits == SelectSeq(packages, hit)
    IN  [i \in 1..Len(hits) |-> [package |-> hits[i].name, version |-> versionOf(hits[i])]]

\* Math.max(0, Number(reset) * 1000 - Date.now() + 1000)
waitMs(reset, now) ==
    IF reset * 1000 - now + 1000 > 0 THEN reset * 1000 - now + 1000 ELSE 0

\* baseDelayMs * Math.pow(2, attempt - 1)
backoff(n) == baseDelayMs * 2 ^ (n - 1)

\* the page of GET /orgs/{org}/repos with per_page = 100
reposPage(listing, page) ==
    SubSeq(listing, (page - 1) * PerPage + 1,
           IF page * PerPage < Len(listing) THEN page * PerPage ELSE Len(listing))

\* "pkg-a\t1.0.0, 1.0.1", "pkg-b\t", "pkg-a\t2.0.0" and the blank line
CompromisedLines ==
    {<<"pkg-a", <<"1.0.0", " 1.0.1">>>>, <<"pkg-b", <<"">>>>, <<"pkg-a", <<"2.0.0">>>>,
     <<"">>}

SbomPackages ==
    [SPDXID : {"SPDXRef-npm-pkg-a"}, name : {"pkg-a"},
     versionInfo : {"1.0.1", "3.0.0", "undefined"}]
    \cup [SPDXID : {"SPDXRef-pypi-pkg-a"}, name : {"pkg-a"}, versionInfo : {"1.0.1"}]
    \cup [SPDXID : {"SPDXRef-npm-pkg-b"}, name : {"pkg-b"}, versionInfo : {"1.0.0"}]

\* what GET /repos/{owner}/{repo}/dependency-graph/sbom answers for a repository:
\* 404 without a dependency graph, else data with or without sbom.packages
SbomAnswers ==
    [enabled : {FALSE}, has_sbom : {FALSE}, packages : {<<>>}]
    \cup [enabled : {TRUE}, has_sbom : {FALSE}, packages : {<<>>}]
    \cup [enabled : {TRUE}, has_sbom : {TRUE}, packages : SeqsUpTo(SbomPackages, 1)]

\* Every list of at most MaxListLines lines; the organization has the repositories
\* r1, with any of the SBOM answers, and r2, whose SBOM holds pkg-a 1.0.1; the
\* scanner is run without arguments, for r1, or for r2, an unknown repository and r1.
InitScanner ==
    /\ compromised_file \in SeqsUpTo(CompromisedLines, MaxListLines)
    /\ selectedRepos \in {<<>>, <<"r1">>, <<"r2", "ghost", "r1">>}
    /\ \E a1 \in SbomAnswers :
          github = [o \in {ScanOrg} |->
                       [repos |-> <<[name |-> "r1"], [name |-> "r2"]>>,
                        sbom |-> [r \in {"r1", "r2"} |->
                            IF r = "r1" THEN a1
                            ELSE [enabled |-> TRUE, has_sbom |-> TRUE,
                                  packages |-> <<[SPDXID |-> "SPDXRef-npm-pkg-a",
                                                  name |-> "pkg-a",
                                                  versionInfo |-> "1.0.1"]>>]]]]
    /\ compromisedPackages = <<>>
    /\ repos = <<>>
    /\ scan_idx = 0
    /\ attempt = 0
    /\ responses = <<>>
    /\ slept = <<>>
    /\ checked = <<>>
    /\ results = <<>>
    /\ input_file = <<>>
    /\ argc = Len(selectedRepos)
    /\ pc = "load"
    /\ ReporterIdle
    /\ UserListIdle
    /\ IssueIdle
    /\ CopilotIdle
    /\ MannequinIdle
    /\ AppStoreIdle
    /\ ProcessStarted

\* the locals of doRequestWithRetries stay in view after the call is over, until
\* the next call has its first answer
CallOver ==
    /\ Len(responses) > 0
    /\ \/ responses[Len(responses)] \in {"ok", "ok_exhausted", "404"}
       \/ responses[Len(responses)] = "error" /\ attempt >= maxAttempts

answered == IF CallOver THEN <<>> ELSE responses
attempts == IF CallOver THEN 0 ELSE attempt
sleeps == IF CallOver THEN <<>> ELSE slept

RateLimited(log) == Cardinality({i \in 1..Len(log) : log[i] = "rate_limit"})

\* the list is loaded, the environment is set; scanOrg takes the repositories of the
\* command line, or asks for those of the organization
ScannerStart ==
    /\ pc = "load"
    /\ compromisedPackages' = loadCompromisedPackages(compromised_file)
    /\ IF Len(selectedRepos) > 0
       THEN /\ repos' = selectedRepos
            /\ scan_idx' = 1
            /\ pc' = "getRepoDependencyGraph"
       ELSE /\ repos' = <<>>
            /\ scan_idx' = 0
            /\ pc' = "getOrgRepos"
    /\ UNCHANGED <<outsideScanner, github, compromised_file, selectedRepos, attempt,
                   responses, slept, checked, results, console_error, uncaught,
                   exit_code>>

\* readFileSync of the list throws: the module does not load
ScannerLoadFails ==
    /\ pc = "load"
    /\ Throw([name |-> "ENOENT", status |-> 0])
    /\ UNCHANGED <<outsideScanner, scannerVars, github, console_error>>

\* GITHUB_TOKEN or GITHUB_ORG is not set
ScannerEnvMissing ==
    /\ pc = "load"
    /\ compromisedPackages' = loadCompromisedPackages(compromised_file)
    /\ console_error' = Append(console_error, "Set GITHUB_TOKEN and GITHUB_ORG env vars.")
    /\ exit_code' = 1
    /\ pc' = "exited"
    /\ UNCHANGED <<outsideScanner, github, compromised_file, selectedRepos, repos,
                   scan_idx, attempt, responses, slept, checked, results, uncaught>>

\* getOrgRepos after the answer to a page: the next page, or the names go to the loop
\* of scanOrg, which asks for the SBOM of the first one
GetOrgReposContinues(data) ==
    /\ repos' = repos \o [i \in 1..Len(data) |-> data[i].name]
    /\ IF Len(data) < PerPage
       THEN IF Len(repos') = 0
            THEN scan_idx' = 0 /\ pc' = "exited" /\ exit_code' = 0
            ELSE scan_idx' = 1 /\ pc' = "getRepoDependencyGraph" /\ exit_code' = exit_code
       ELSE scan_idx' = 0 /\ pc' = "getOrgRepos" /\ exit_code' = exit_code
    /\ UNCHANGED <<checked, results, uncaught>>

\* scanOrg after getRepoDependencyGraph: findings are pushed, then the next
\* repository, or the results are printed and the script ends
ScanOrgContinues(packages, enabled) ==
    LET repo == repos[scan_idx]
        compromised == findCompromisedInGraph(packages, compromisedPackages)
    IN  /\ checked' = Append(checked, [repo |-> repo, enabled |-> enabled])
        /\ results' = IF enabled /\ Len(compromised) > 0
                      THEN Append(results, [repo |-> repo, compromised |-> compromised])
                      ELSE results
        /\ scan_idx' = scan_idx + 1
        /\ IF scan_idx' > Len(repos)
           THEN pc' = "exited" /\ exit_code' = 0
           ELSE pc' = "getRepoDependencyGraph" /\ exit_code' = exit_code
        /\ UNCHANGED <<repos, uncaught>>

\* doRequestWithRetries throws: getRepoDependencyGraph catches it and answers
\* {packages: [], enabled: false}; out of getOrgRepos nothing catches it
RequestThrows(err) ==
    IF pc = "getOrgRepos"
    THEN Throw(err) /\ UNCHANGED <<repos, scan_idx, checked, results>>
    ELSE ScanOrgContinues(<<>>, FALSE)

\* the SBOM answer says whether the repository has a dependency graph
Available ==
    \/ pc = "getOrgRepos"
    \/ /\ pc = "getRepoDependencyGraph"
       /\ repos[scan_idx] \in DOMAIN github[ScanOrg].sbom
       /\ github[ScanOrg].sbom[repos[scan_idx]].enabled

\* githubApi.get resolves; when its headers say the quota is used up, the call
\* sleeps until the reset before it returns the response
RequestSucceeds ==
    /\ pc \in {"getOrgRepos", "getRepoDependencyGraph"}
    /\ Available
    /\ attempt' = attempts + 1
    /\ \E exhausted \in BOOLEAN :
          /\ responses' = Append(answered, IF exhausted THEN "ok_exhausted" ELSE "ok")
          /\ slept' = IF exhausted
                      THEN Append(sleeps, waitMs(RateLimitReset, DateNow))
                      ELSE sleeps
    /\ IF pc = "getOrgRepos"
       THEN GetOrgReposContinues(
                reposPage(github[ScanOrg].repos, Len(repos) \div PerPage + 1))
       ELSE LET data == github[ScanOrg].sbom[repos[scan_idx]]
            IN  ScanOrgContinues(IF data.has_sbom THEN data.packages ELSE <<>>, TRUE)
    /\ UNCHANGED <<outsideScanner, github, compromised_file, compromisedPackages,
                   selectedRepos, console_error>>

\* faulty variant: a 404 is retried like any other failure
RequestNotFoundRetried ==
    /\ pc = "getRepoDependencyGraph"
    /\ ~Available
    /\ attempt' = attempts + 1
    /\ responses' = Append(answered, "404")
    /\ IF attempt' >= maxAttempts
       THEN /\ slept' = sleeps
            /\ RequestThrows([name |-> "AxiosError", status |-> 404])
       ELSE /\ slept' = Append(sleeps, baseDelayMs * 2 ^ (attempt' - 1))
            /\ UNCHANGED <<repos, scan_idx, checked, results, pc, uncaught, exit_code>>
    /\ UNCHANGED <<outsideScanner, github, compromised_file, compromisedPackages,
                   selectedRepos, console_error>>

\* githubApi.get rejects with status 404: thrown at once
RequestNotFound ==
    /\ pc = "getRepoDependencyGraph"
    /\ ~Available
    /\ attempt' = attempts + 1
    /\ responses' = Append(answered, "404")
    /\ slept' = sleeps
    /\ RequestThrows([name |-> "AxiosError", status |-> 404])
    /\ UNCHANGED <<outsideScanner, github, compromised_file, compromisedPackages,
                   selectedRepos, console_error>>

\* githubApi.get rejects with x-ratelimit-remaining 0 and a reset time: the call
\* sleeps until the reset and goes round the loop again
RequestRateLimited ==
    /\ pc \in {"getOrgRepos", "getRepoDependencyGraph"}
    /\ RateLimited(answered) < MaxRateLimited
    /\ attempt' = attempts + 1
    /\ responses' = Append(answered, "rate_limit")
    /\ slept' = Append(sleeps, waitMs(RateLimitReset, DateNow))
    /\ UNCHANGED <<outsideScanner, github, compromised_file, compromisedPackages,
                   selectedRepos, repos, scan_idx, checked, results, pc, console_error,
                   uncaught, exit_code>>

\* faulty variant: the call gives up when attempt has passed maxAttempts
RequestFailsOnceMore ==
    /\ pc \in {"getOrgRepos", "getRepoDependencyGraph"}
    /\ attempt' = attempts + 1
    /\ responses' = Append(answered, "error")
    /\ IF attempt' > maxAttempts
       THEN /\ slept' = sleeps
            /\ RequestThrows([name |-> "AxiosError", status |-> 500])
       ELSE /\ slept' = Append(sleeps, backoff(attempt'))
            /\ UNCHANGED <<repos, scan_idx, checked, results, pc, uncaught, exit_code>>
    /\ UNCHANGED <<outsideScanner, github, compromised_file, compromisedPackages,
                   selectedRepos, console_error>>

\* githubApi.get rejects for another reason (5xx, network): thrown when attempt has
\* reached maxAttempts, else retried after the backoff
RequestFails ==
    /\ pc \in {"getOrgRepos", "getRepoDependencyGraph"}
    /\ attempt' = attempts + 1
    /\ responses' = Append(answered, "error")
    /\ IF attempt' >= maxAttempts
       THEN /\ slept' = sleeps
            /\ RequestThrows([name |-> "AxiosError", status |-> 500])
       ELSE /\ slept' = Append(sleeps, backoff(attempt'))
            /\ UNCHANGED <<repos, scan_idx, checked, results, pc, uncaught, exit_code>>
    /\ UNCHANGED <<outsideScanner, github, compromised_file, compromisedPackages,
                   selectedRepos, console_error>>

NextScanner ==
    \/ ScannerStart
    \/ ScannerLoadFails
    \/ ScannerEnvMissing
    \/ RequestSucceeds
    \/ RequestNotFound
    \/ RequestRateLimited
    \/ RequestFails

SpecScanner == InitScanner /\ [][NextScanner]_vars

----------------------------------------------------------------------------
(* Properties of the scanner *)

\* the npm packages of the SBOM of a repository whose name is in the list of
\* compromised packages and whose versionInfo is one of the versions listed for it
ListedPackages(repo) ==
    LET data == github[ScanOrg].sbom[repo]
        listed(pkg) ==
            /\ includesNpm(pkg.SPDXID)
            /\ pkg.name \in DOMAIN compromisedPackages
            /\ Includes(compromisedPackages[pkg.name], pkg.versionInfo)
        hits == SelectSeq(IF data.has_sbom THEN data.packages ELSE <<>>, listed)
    IN  [i \in 1..Len(hits) |-> [package |-> hits[i].name, version |-> hits[i].versionInfo]]

\* C23: for every repository whose SBOM was retrieved, the findings are an entry
\* {package, version} for every npm package of the SBOM whose name is in the list and
\* whose versionInfo is one of the versions listed for the name, and nothing else;
\* the repository is in the results if and only if there is such a package.
C23_ListedVersionsAreFound ==
    \A i \in 1..Len(checked) :
        checked[i].enabled =>
            /\ Len(ListedPackages(checked[i].repo)) > 0 <=>
                   \E j \in 1..Len(results) : results[j].repo = checked[i].repo
            /\ \A j \in 1..Len(results) :
                   results[j].repo = checked[i].repo =>
                       results[j].compromised = ListedPackages(checked[i].repo)

Errors(log) == Cardinality({i \in 1..Len(log) : log[i] = "error"})

\* no answer of the call had the rate-limit headers of a used-up quota
NoRateLimit == \A i \in 1..Len(responses) : responses[i] \notin {"rate_limit", "ok_exhausted"}

LastResponse == responses[Len(responses)]

\* the caller of the call that threw has the exception: getOrgRepos lets it out of
\* the script, getRepoDependencyGraph has turned it into "not enabled"
Rethrown ==
    IF scan_idx = 0
    THEN pc = "exited" /\ uncaught # NoError /\ exit_code = 1
    ELSE /\ uncaught = NoError
         /\ scan_idx >= 2
         /\ Len(checked) = scan_idx - 1
         /\ ~checked[scan_idx - 1].enabled

\* C24: a call of doRequestWithRetries answered by ordinary failures only makes at
\* most 5 attempts, sleeps 1000, 2000, 4000, 8000 ms after the first four failures
\* and throws the fifth to its caller; a success ends the call with that response:
\* no attempt follows it.  With or without rate-limit answers no call sees more
\* than 5 ordinary failures.
C24_FiveAttemptsWithDoublingBackoff ==
    /\ Errors(responses) <= maxAttempts
    /\ \A i \in 1..Len(responses) :
           responses[i] \in {"ok", "ok_exhausted"} => i = Len(responses)
    /\ NoRateLimit =>
           /\ attempt = Len(responses)
           /\ attempt <= maxAttempts
           /\ slept = SubSeq(<<1000, 2000, 4000, 8000>>, 1,
                             IF Errors(responses) < 4 THEN Errors(responses) ELSE 4)
           /\ Errors(responses) = maxAttempts => CallOver /\ Rethrown
           /\ (Errors(responses) \in 1..(maxAttempts - 1) /\ LastResponse = "error") =>
                  /\ ~CallOver
                  /\ pc \in {"getOrgRepos", "getRepoDependencyGraph"}

\* the SBOM request of r1 failed five times and was given up after four sleeps
C24_Witness ==
    /\ responses = <<"error", "error", "error", "error", "error">>
    /\ slept = <<1000, 2000, 4000, 8000>>
    /\ Len(checked) > 0
    /\ checked[Len(checked)] = [repo |-> "r1", enabled |-> FALSE]

\* C25: a rate-limit answer makes the call sleep until the reset and try again
\* without counting as a failure: a call that was rate-limited any number of times
\* still gives up only at its fifth ordinary failure.
C25_RateLimitWaitsAreNotCounted ==
    (CallOver /\ LastResponse = "error") => Errors(responses) = maxAttempts

\* C26: a 404 on the SBOM request is the last answer of its call, never retried; no
\* failure of an SBOM request leaves the script: the repository is logged as not
\* enabled and has no entry in the results, and scanOrg goes on, so that the
\* repositories are checked once each, in the order of the list, all of them by the
\* end of the run.
C26_SbomFailuresAreSwallowed ==
    /\ \A i \in 1..Len(responses) : responses[i] = "404" => i = Len(responses)
    /\ (Len(responses) > 0 /\ LastResponse = "404") =>
           /\ attempt = Len(responses)
           /\ Rethrown
    /\ scan_idx >= 1 =>
           /\ uncaught = NoError
           /\ Len(checked) = scan_idx - 1
           /\ \A i \in 1..Len(checked) : checked[i].repo = repos[i]
           /\ pc = "exited" => Len(checked) = Len(repos) /\ exit_code = 0
    /\ \A i \in 1..Len(checked) :
           ~checked[i].enabled =>
               \A j \in 1..Len(results) : results[j].repo # checked[i].repo
    /\ (CallOver /\ LastResponse \in {"404", "error"} /\ scan_idx >= 1) =>
           /\ scan_idx >= 2
           /\ Len(checked) = scan_idx - 1
           /\ ~checked[scan_idx - 1].enabled

\* r2 was scanned, the unknown repository answered 404 on the first attempt and r1
\* was given up after its last failure: all three were checked
C26_Witness ==
    /\ pc = "exited"
    /\ repos = <<"r2", "ghost", "r1">>
    /\ checked = <<[repo |-> "r2", enabled |-> TRUE], [repo |-> "ghost", enabled |-> FALSE],
                   [repo |-> "r1", enabled |-> FALSE]>>
    /\ LastResponse = "error"

----------------------------------------------------------------------------
(* utils/appstore-connect-api: the export of who sees which app.  App      *)
(* Store Connect is github["appstore"]: the users and the apps each sees.  *)

maxRetryNum == 5

AppStore == "appstore"

\* the users of the team, with the attributes the export reads
AppStoreUsers ==
    <<[id |-> "id1", username |-> "a@gov", firstName |-> "Ann", lastName |-> "A",
       roles |-> <<"ADMIN", "DEVELOPER">>],
      [id |-> "id2", username |-> "b@gov", firstName |-> "Bob", lastName |-> "B",
       roles |-> <<"DEVELOPER">>]>>

\* roles.map { $0.rawValue }.joined(separator: "; ")
RECURSIVE joined(_, _)
joined(texts, separator) ==
    IF Len(texts) = 0 THEN ""
    ELSE IF Len(texts) = 1 THEN texts[1]
    ELSE texts[1] \o separator \o joined(Tail(texts), separator)

\* MyAppStoreUser(name: firstName + " " + lastName, email: username, role: ...)
MyAppStoreUser(user) ==
    [name |-> user.firstName \o " " \o user.lastName,
     email |-> user.username,
     role |-> joined(user.roles, "; ")]

\* appsAndUsers[appName, default: []].append(user) for every visible app with a name
RECURSIVE appendVisibleApps(_, _, _)
appendVisibleApps(apps, visibleApps, user) ==
    IF Len(visibleApps) = 0 THEN apps
    ELSE LET before == appendVisibleApps(apps, SubSeq(visibleApps, 1, Len(visibleApps) - 1),
                                         user)
             appName == visibleApps[Len(visibleApps)]
         IN  IF appName = "" THEN before
             ELSE [name \in DOMAIN before \cup {appName} |->
                      IF name = appName
                      THEN (IF name \in DOMAIN before THEN before[name] ELSE <<>>)
                           \o <<MyAppStoreUser(user)>>
                      ELSE before[name]]

\* the app names in the order of String's <
AppNames == <<"App A", "App B">>

\* the header and "\(appName),\(user.email),\(user.name),\(user.role)" per user of
\* every app, the apps sorted by name
RECURSIVE csvRows(_, _)
csvRows(apps, n) ==
    IF n = 0 THEN <<"App Name,User Email,User Name,Role">>
    ELSE csvRows(apps, n - 1)
         \o (IF AppNames[n] \in DOMAIN apps
             THEN [i \in 1..Len(apps[AppNames[n]]) |->
                      AppNames[n] \o "," \o apps[AppNames[n]][i].email \o ","
                      \o apps[AppNames[n]][i].name \o "," \o apps[AppNames[n]][i].role]
             ELSE <<>>)

\* every team of some of the users, each seeing at most two apps, one of which may
\* have no name
InitAppStore ==
    /\ \E team \in SubLists(AppStoreUsers) :
       \E visible \in [{"id1", "id2"} -> SeqsUpTo({"App A", "App B", ""}, 2)] :
           github = [o \in {AppStore} |-> [users |-> team, visibleApps |-> visible]]
    /\ fetched_users = <<>>
    /\ user_index = 0
    /\ retryNum = 0
    /\ seconds_slept = <<>>
    /\ appsAndUsers = <<>>
    /\ printed = <<>>
    /\ input_file = <<>>
    /\ argc = 4
    /\ pc = "users"
    /\ ReporterIdle
    /\ UserListIdle
    /\ IssueIdle
    /\ CopilotIdle
    /\ MannequinIdle
    /\ ScannerIdle
    /\ ProcessStarted

VisibleAppsRequest(user) == Request("users.visibleApps", user.id)

\* writeToFile: the rows are written, or the failure is printed; run returns
WriteToFile(apps, log) ==
    /\ \E ok \in BOOLEAN :
          IF ok
          THEN /\ written' = [f \in {"outputFileName"} |-> csvRows(apps, Len(AppNames))]
               /\ printed' = log
          ELSE /\ written' = written
               /\ printed' = Append(log, "Error creating file!")
    /\ exit_code' = 0
    /\ pc' = "exited"

\* the for loop of run goes to the next user, or to writeToFile after the last one
NextAppStoreUser(apps, log) ==
    /\ user_index' = user_index + 1
    /\ retryNum' = 0
    /\ appsAndUsers' = apps
    /\ IF user_index' > Len(fetched_users)
       THEN WriteToFile(apps, log)
       ELSE /\ pc' = "getVisibleAppsForUser"
            /\ printed' = log
            /\ UNCHANGED <<written, exit_code>>

\* all pages of users have arrived
FetchUsers ==
    /\ pc = "users"
    /\ fetched_users' = github[AppStore].users
    /\ requests' = Append(requests, Request("users", AppStore))
    /\ user_index' = 1
    /\ IF Len(fetched_users') = 0
       THEN WriteToFile(appsAndUsers, printed)
       ELSE /\ pc' = "getVisibleAppsForUser"
            /\ UNCHANGED <<written, exit_code, printed>>
    /\ UNCHANGED <<outsideAppStore, github, retryNum, seconds_slept, appsAndUsers,
                   uncaught>>

\* try APIConfiguration(...) throws, the key file being unusable: run throws before
\* the provider exists and before any request
APIConfigurationFails ==
    /\ pc = "users"
    /\ Throw([name |-> "APIConfiguration.Error", status |-> 0])
    /\ UNCHANGED <<outsideAppStore, appStoreVars, github, requests, written>>

\* a page of users fails: run throws
FetchUsersFails ==
    /\ pc = "users"
    /\ requests' = Append(requests, Request("users", AppStore))
    /\ Throw([name |-> "APIProvider.Error", status |-> 0])
    /\ UNCHANGED <<outsideAppStore, appStoreVars, github, written>>

\* the request for the visible apps of the user succeeds: the user is filed under
\* every app with a name
GetVisibleAppsForUser ==
    /\ pc = "getVisibleAppsForUser"
    /\ requests' = Append(requests, VisibleAppsRequest(fetched_users[user_index]))
    /\ NextAppStoreUser(
           appendVisibleApps(appsAndUsers,
                             github[AppStore].visibleApps[fetched_users[user_index].id],
                             fetched_users[user_index]),
           printed)
    /\ UNCHANGED <<outsideAppStore, github, fetched_users, seconds_slept, uncaught>>

\* faulty variant: the error is thrown when retryNum reaches maxRetryNum
GetVisibleAppsForUserFailsEarly ==
    /\ pc = "getVisibleAppsForUser"
    /\ requests' = Append(requests, VisibleAppsRequest(fetched_users[user_index]))
    /\ IF retryNum + 1 >= maxRetryNum
       THEN /\ NextAppStoreUser(appsAndUsers,
                   Append(printed, "Could not fetch visible apps for user "
                                   \o fetched_users[user_index].username))
            /\ seconds_slept' = seconds_slept
       ELSE /\ retryNum' = retryNum + 1
            /\ seconds_slept' = Append(seconds_slept,
                                       [user |-> fetched_users[user_index].id,
                                        seconds |-> 20 * retryNum'])
            /\ UNCHANGED <<user_index, appsAndUsers, printed, pc, written, exit_code>>
    /\ UNCHANGED <<outsideAppStore, github, fetched_users, uncaught>>

\* the request fails: retryNum is counted up; past maxRetryNum the error is thrown
\* to run, which prints it and goes on; else the task sleeps 20 * retryNum seconds
\* and asks again
GetVisibleAppsForUserFails ==
    /\ pc = "getVisibleAppsForUser"
    /\ requests' = Append(requests, VisibleAppsRequest(fetched_users[user_index]))
    /\ IF retryNum + 1 > maxRetryNum
       THEN /\ NextAppStoreUser(appsAndUsers,
                   Append(printed, "Could not fetch visible apps for user "
                                   \o fetched_users[user_index].username))
            /\ seconds_slept' = seconds_slept
       ELSE /\ retryNum' = retryNum + 1
            /\ seconds_slept' = Append(seconds_slept,
                                       [user |-> fetched_users[user_index].id,
                                        seconds |-> 20 * retryNum'])
            /\ UNCHANGED <<user_index, appsAndUsers, printed, pc, written, exit_code>>
    /\ UNCHANGED <<outsideAppStore, github, fetched_users, uncaught>>

NextAppStore ==
    \/ APIConfigurationFails
    \/ FetchUsers
    \/ FetchUsersFails
    \/ GetVisibleAppsForUser
    \/ GetVisibleAppsForUserFails

SpecAppStore == InitAppStore /\ [][NextAppStore]_vars

RequestsFor(user) ==
    Cardinality({i \in 1..Len(requests) : requests[i] = VisibleAppsRequest(user)})

SleepsFor(user) ==
    LET own(sleep) == sleep.user = user.id
        sleeps_of_user == SelectSeq(seconds_slept, own)
    IN  [i \in 1..Len(sleeps_of_user) |-> sleeps_of_user[i].seconds]

GaveUp(user) ==
    Includes(printed, "Could not fetch visible apps for user " \o user.username)

\* the user is filed under the app
Filed(user, appName) ==
    /\ appName \in DOMAIN appsAndUsers
    /\ Includes(appsAndUsers[appName], MyAppStoreUser(user))

\* C27: getVisibleAppsForUser makes at most 6 requests for a user, the first and
\* maxRetryNum = 5 retries, and sleeps 20 * retryNum seconds before the retryNum-th
\* retry; the first success ends the call and its apps are what is filed for the
\* user; the error is thrown only when the 6th request has failed too, and then run
\* prints it and goes on with the next user, down to the writing of the file.
C27_SixRequestsWithLinearBackoff ==
    /\ \A i \in 1..Len(fetched_users) :
           LET user == fetched_users[i]
               done == user_index > i
               visibleApps == Range(github[AppStore].visibleApps[user.id]) \ {""}
           IN  /\ RequestsFor(user) <= maxRetryNum + 1
               /\ Len(SleepsFor(user)) <= maxRetryNum
               /\ SleepsFor(user) = [n \in 1..Len(SleepsFor(user)) |-> 20 * n]
               /\ RequestsFor(user) \in {Len(SleepsFor(user)), Len(SleepsFor(user)) + 1}
               /\ user_index < i => RequestsFor(user) = 0
               /\ user_index = i =>
                      /\ RequestsFor(user) = retryNum
                      /\ Len(SleepsFor(user)) = retryNum
                      /\ ~GaveUp(user)
               /\ done =>
                      /\ RequestsFor(user) = Len(SleepsFor(user)) + 1
                      /\ GaveUp(user) =>
                             /\ RequestsFor(user) = maxRetryNum + 1
                             /\ \A appName \in Range(AppNames) : ~Filed(user, appName)
                      /\ ~GaveUp(user) =>
                             \A appName \in Range(AppNames) :
                                 Filed(user, appName) <=> appName \in visibleApps
    /\ retryNum \in 0..maxRetryNum
    /\ (user_index >= 1 /\ pc = "exited") =>
           /\ user_index = Len(fetched_users) + 1
           /\ uncaught = NoError
           /\ exit_code = 0

\* the first user was given up after six requests and five sleeps, the second was
\* answered at the third request and is in the file
C27_Witness ==
    /\ pc = "exited"
    /\ Len(fetched_users) = 2
    /\ GaveUp(fetched_users[1])
    /\ RequestsFor(fetched_users[1]) = 6
    /\ SleepsFor(fetched_users[1]) = <<20, 40, 60, 80, 100>>
    /\ RequestsFor(fetched_users[2]) = 3
    /\ "outputFileName" \in DOMAIN written
    /\ Len(written["outputFileName"]) > 1

====
